---- MODULE Spec2Model ----
(***************************************************************************)
(* Model of cordl's type-model building and field layout:                  *)
(*   - cs_fields.rs : field_collision_check, make_or_unionize_fields,       *)
(*                    pack_fields_into_single_union, handle_*_fields        *)
(*   - cs_type.rs   : make_fields / get_offset                              *)
(*   - cpp_type.rs  : create_size_padding, cppify_name_il2cpp(_recurse),    *)
(*                    CppTypeRequirements                                   *)
(***************************************************************************)
EXTENDS Integers, Sequences, FiniteSets, TLC

VARIABLES
    pc,               \* position of the modelled call sequence
    instance_fields,  \* argument of make_or_unionize_fields (a FieldInfo slice)
    unionized,        \* Vec<CsMember> returned by make_or_unionize_fields
    t,                \* the Il2CppTypeDefinition being filled, with its field table
    fields,           \* Vec<FieldInfo> built by make_fields
    members,          \* CsType::members / CppType::declarations
    size_info,        \* CsType::size_info: <<>> for None, <<SizeInfo>> for Some
    packing,          \* CsType::packing (None or the specified packing)
    feature,          \* the il2cpp_v29 / il2cpp_v31 cargo feature of the build
    cpp_type,         \* the CppType resolving names, with its requirements
    resolved,         \* the cppify_name_il2cpp calls made so far, with their results
    collection,       \* the context collection: the type made for each definition
    arguments,        \* the arguments of the function a specification applies once
    returned          \* what that function returned: <<>> before the call

unionVars == <<instance_fields, unionized>>
typeVars == <<t, fields, members, size_info, packing, feature>>
resolveVars == <<cpp_type, resolved, collection>>
callVars == <<arguments, returned>>
vars == <<pc, unionVars, typeVars, resolveVars, callVars>>

----------------------------------------------------------------------------
(* Bounds of the model *)

MaxUnionFields == 3

----------------------------------------------------------------------------
(* Option<u32> and u32 arithmetic *)

\* Option::None. Ordered below every Some(x), as Rust's Ord for Option does.
None == -1

\* u32::MAX. The checker's integers are 32-bit signed, so the largest of them
\* stands for it; every modelled offset and size is far below it.
U32Max == 2147483647

unwrap_or_max(o) == IF o = None THEN U32Max ELSE o

\* u32 addition, wrapping past u32::MAX.
AddU32(a, b) == IF b > U32Max - a THEN b - (U32Max - a) - 1 ELSE a + b

----------------------------------------------------------------------------
(* Sequence helpers *)

RECURSIVE SumSizes(_)
SumSizes(s) == IF s = <<>> THEN 0 ELSE Head(s).size + SumSizes(Tail(s))

Reverse(s) == [i \in 1..Len(s) |-> s[Len(s) + 1 - i]]

RECURSIVE Flatten(_)
Flatten(ss) == IF ss = <<>> THEN <<>> ELSE Head(ss) \o Flatten(Tail(ss))

\* Insert x into the sequence s, sorted by field k, after every element whose
\* key is not greater: the insertion step of a stable sort.
RECURSIVE InsertStable(_, _, _)
InsertStable(s, x, k) ==
    IF s = <<>> THEN <<x>>
    ELSE IF Head(s)[k] <= x[k]
         THEN <<Head(s)>> \o InsertStable(Tail(s), x, k)
         ELSE <<x>> \o s

\* Iterator::sorted_by (itertools) comparing field k: a stable sort.
RECURSIVE SortedBy(_, _)
SortedBy(s, k) ==
    IF s = <<>> THEN <<>>
    ELSE InsertStable(SortedBy(SubSeq(s, 1, Len(s) - 1), k), s[Len(s)], k)

----------------------------------------------------------------------------
(* Members *)

FieldDecl(f) == [kind |-> "FieldDecl", field |-> f]

NestedStruct(decls, pack) ==
    [kind |-> "NestedStruct", declarations |-> decls, packing |-> pack]

NestedUnion(decls, offset, is_private) ==
    [kind |-> "NestedUnion", declarations |-> decls, offset |-> offset,
     is_private |-> is_private]

Property(name) == [kind |-> "Property", name |-> name]

MethodDecl(name) == [kind |-> "MethodDecl", name |-> name]

\* A field name is a sequence of tokens whose concatenation is its text;
\* array_len is the N of a trailing "[0xN]" of the name, None without one.
CsField(name, offset, instance) ==
    [name |-> name, array_len |-> None, field_ty |-> "field", offset |-> offset,
     instance |-> instance, is_private |-> FALSE]

FieldInfo(name, offset, size, is_static, is_constant) ==
    [cpp_field |-> CsField(name, offset, ~is_static /\ ~is_constant),
     is_constant |-> is_constant, is_static |-> is_static,
     offset |-> offset, size |-> size]

----------------------------------------------------------------------------
(* cs_fields.rs: field_collision_check *)

RECURSIVE CollisionScan(_, _)
CollisionScan(s, next_offset) ==
    IF s = <<>> THEN FALSE
    ELSE LET offset == unwrap_or_max(Head(s).offset)
         IN IF offset < next_offset THEN TRUE
            ELSE CollisionScan(Tail(s), AddU32(offset, Head(s).size))

field_collision_check(fs) == CollisionScan(SortedBy(fs, "offset"), 0)

----------------------------------------------------------------------------
(* cs_fields.rs: make_or_unionize_fields *)

FieldInfoSetMax(set) == set.size + set.offset

accumulated_size(fs) == SumSizes(fs)

\* Mutant: the fields visited by ascending offset only, without the descending
\* size order among fields of one offset.
UnionizeOrder_OffsetOnly(fs) == SortedBy(fs, "offset")

\* The order in which the for_each closure visits the fields.
UnionizeOrder(fs) ==
    SortedBy(Reverse(SortedBy(fs, "size")), "offset")

\* One run of the for_each closure on `field`.
UnionizeStep(st, field) ==
    LET offset == unwrap_or_max(field.offset)
        size == field.size
        max == AddU32(offset, size)
        grow == max > st.current_max
        current_offset == IF grow THEN offset ELSE st.current_offset
        current_max == IF grow THEN max ELSE st.current_max
        entry == IF current_offset \in DOMAIN st.offset_map
                 THEN st.offset_map[current_offset]
                 ELSE [fields |-> <<>>, offset |-> current_offset, size |-> size]
        sized == IF current_max > FieldInfoSetMax(entry)
                 THEN [entry EXCEPT !.size = size]
                 ELSE entry
        n == Len(sized.fields)
        pushed == IF n > 0 /\ current_offset + accumulated_size(sized.fields[n]) = offset
                  THEN [sized EXCEPT !.fields[n] = Append(@, field)]
                  ELSE [sized EXCEPT !.fields = Append(@, <<field>>)]
    IN [offset_map |-> [k \in DOMAIN st.offset_map \cup {current_offset} |->
                           IF k = current_offset THEN pushed ELSE st.offset_map[k]],
        current_max |-> current_max,
        current_offset |-> current_offset]

RECURSIVE UnionizeFold(_, _)
UnionizeFold(st, s) ==
    IF s = <<>> THEN st ELSE UnionizeFold(UnionizeStep(st, Head(s)), Tail(s))

\* The offset_map built by the for_each loop.
UnionizeMap(fs) ==
    UnionizeFold([offset_map |-> <<>>, current_max |-> 0, current_offset |-> 0],
                 UnionizeOrder(fs)).offset_map

FieldDecls(fs) == [i \in 1..Len(fs) |-> FieldDecl(fs[i].cpp_field)]

\* Mutant: a branch that declares the first of its fields only.
BranchMembers_FirstOnly(struct_contents) == FieldDecls(<<Head(struct_contents)>>)

\* One branch of a union: a lone field stays a field, several become a struct.
BranchMembers(struct_contents) ==
    IF Len(struct_contents) = 1
    THEN FieldDecls(struct_contents)
    ELSE <<NestedStruct(FieldDecls(struct_contents), None)>>

\* The members one FieldInfoSet is turned into.
FieldSetMembers(field_set) ==
    IF Len(field_set.fields) = 1
    THEN FieldDecls(Flatten(field_set.fields))
    ELSE <<NestedUnion(
             Flatten([i \in 1..Len(field_set.fields) |->
                        BranchMembers(field_set.fields[i])]),
             field_set.offset, FALSE)>>

\* All orders in which HashMap::into_values may yield the keys.
KeyOrders(map) ==
    {o \in [1..Cardinality(DOMAIN map) -> DOMAIN map] :
        \A i, j \in DOMAIN o : i # j => o[i] # o[j]}

\* The results make_or_unionize_fields may return: one per iteration order of
\* the HashMap.
make_or_unionize_fields(fs) ==
    IF ~field_collision_check(fs)
    THEN {FieldDecls(fs)}
    ELSE LET map == UnionizeMap(fs)
         IN {Flatten([i \in 1..Len(o) |-> FieldSetMembers(map[o[i]])]) :
                o \in KeyOrders(map)}

----------------------------------------------------------------------------
(* cs_fields.rs: explicit layout, pack_fields_into_single_union *)

\* Both structs il2cpp-style explicit layout makes of one field: <<packed, alignment>>.
field_into_offset_structs(min_offset, field) ==
    LET actual_offset == field.offset
        packed_padding_field ==
            [name |-> field.cpp_field.name \o <<"_padding">>,
             array_len |-> actual_offset, field_ty |-> "uint8_t",
             offset |-> actual_offset, instance |-> TRUE, is_private |-> FALSE]
        alignment_padding_field ==
            [name |-> field.cpp_field.name \o <<"_padding_forAlignment">>,
             array_len |-> actual_offset, field_ty |-> "uint8_t",
             offset |-> actual_offset, instance |-> TRUE, is_private |-> FALSE]
        alignment_field ==
            [field.cpp_field EXCEPT !.name = @ \o <<"_forAlignment">>,
                                    !.is_private = FALSE]
        packed_field == [field.cpp_field EXCEPT !.is_private = FALSE]
        packed_struct ==
            NestedStruct(<<FieldDecl(packed_padding_field), FieldDecl(packed_field)>>, 1)
        alignment_struct ==
            NestedStruct(<<FieldDecl(alignment_padding_field), FieldDecl(alignment_field)>>,
                         None)
    IN <<packed_struct, alignment_struct>>

RECURSIVE MinOffset(_)
MinOffset(fs) ==
    IF Len(fs) = 1 THEN Head(fs).offset
    ELSE LET m == MinOffset(Tail(fs))
         IN IF Head(fs).offset < m THEN Head(fs).offset ELSE m

\* Mutant: only the byte-packed struct of each field, no alignment struct.
pack_fields_PackedOnly(fs) ==
    LET min_offset == IF fs = <<>> THEN 0 ELSE MinOffset(fs)
    IN NestedUnion([i \in 1..Len(fs) |-> field_into_offset_structs(min_offset, fs[i])[1]],
                   min_offset, TRUE)

pack_fields_into_single_union(fs) ==
    LET min_offset == IF fs = <<>> THEN 0 ELSE MinOffset(fs)
        packed_structs ==
            Flatten([i \in 1..Len(fs) |-> field_into_offset_structs(min_offset, fs[i])])
    IN NestedUnion(packed_structs, min_offset, TRUE)

----------------------------------------------------------------------------
(* cs_fields.rs: handle_instance_fields, handle_valuetype_fields,           *)
(* handle_referencetype_fields, handle_const_fields                         *)

property_exists(mems, to_find) ==
    \E i \in 1..Len(mems) : mems[i].kind = "Property" /\ mems[i].name = to_find

\* The closure of handle_instance_fields that renames a field shadowed by a property.
RenameShadowed(mems, d) ==
    IF property_exists(mems, d.cpp_field.name)
    THEN [d EXCEPT !.cpp_field.name = <<"_cordl_">> \o @, !.cpp_field.is_private = TRUE]
    ELSE d

IsInstanceFieldInfo(f) == f.offset # None /\ ~f.is_static /\ ~f.is_constant

\* The members handle_instance_fields pushes.
InstanceFieldMembers(mems, fs, td) ==
    LET instance_field_decls == SelectSeq(fs, IsInstanceFieldInfo)
        resulting_fields ==
            [i \in 1..Len(instance_field_decls) |->
                RenameShadowed(mems, instance_field_decls[i])]
    IN IF td.is_explicit_layout
       THEN <<pack_fields_into_single_union(resulting_fields)>>
       ELSE FieldDecls(resulting_fields)

handle_instance_fields(mems, fs, td) ==
    IF Len(td.fields) = 0 THEN mems
    ELSE mems \o InstanceFieldMembers(mems, fs, td)

\* fixup_backing_field: the accessor prefix put before a backing field's name.
fixup_backing_field(name) == <<"___">> \o name

BackingFields(fs) ==
    [i \in 1..Len(fs) |-> [fs[i] EXCEPT !.cpp_field.name = fixup_backing_field(@)]]

IsNonStaticFieldInfo(f) == ~f.is_constant /\ ~f.is_static

\* prop_decl_from_fieldinfo: the property standing for a field.
prop_decl_from_fieldinfo(f) == Property(f.cpp_field.name)

\* prop_methods_from_fieldinfo: the accessor declarations of that property.
prop_methods_from_fieldinfo(f) ==
    <<MethodDecl(<<"__cordl_internal_get_">> \o f.cpp_field.name),
      MethodDecl(<<"__cordl_internal_set_">> \o f.cpp_field.name)>>

handle_valuetype_fields(mems, fs, td) ==
    IF Len(td.fields) = 0 THEN mems
    ELSE IF td.is_explicit_layout
    THEN LET props == SelectSeq(fs, IsNonStaticFieldInfo)
             with_props == mems \o [i \in 1..Len(props) |->
                                      prop_decl_from_fieldinfo(props[i])]
         IN handle_instance_fields(with_props, BackingFields(fs), td)
    ELSE handle_instance_fields(mems, fs, td)

handle_referencetype_fields(mems, fs, td) ==
    IF Len(td.fields) = 0 THEN mems
    ELSE LET props == SelectSeq(fs, IsNonStaticFieldInfo)
             with_props ==
                mems \o Flatten([i \in 1..Len(props) |->
                    <<prop_decl_from_fieldinfo(props[i])>>
                        \o prop_methods_from_fieldinfo(props[i])])
         IN handle_instance_fields(with_props, BackingFields(fs), td)

IsConstantFieldInfo(f) == f.is_constant

handle_const_fields(mems, fs, td) ==
    IF Len(td.fields) = 0 THEN mems
    ELSE LET consts == SelectSeq(fs, IsConstantFieldInfo)
         IN mems \o [i \in 1..Len(consts) |->
                FieldDecl([consts[i].cpp_field EXCEPT !.instance = FALSE])]

----------------------------------------------------------------------------
(* cs_type.rs: make_fields, get_offset *)

\* Metadata::object_size(): the size of the object header.
ObjectSize == 16

IsStaticOrConstant(fd) == fd.is_static \/ fd.is_constant

\* Mutant: the raw offset also for static and constant fields.
get_offset_IgnoringStatic(fd, td, used) ==
    LET offset == IF used < Len(td.computed_offsets)
                  THEN td.computed_offsets[used + 1]
                  ELSE fd.raw_offset
    IN IF td.is_value_type /\ offset >= ObjectSize
       THEN offset - ObjectSize
       ELSE offset

\* Mutant: the header subtracted from every offset of a value type, wrapping
\* around as u32 arithmetic does.
get_offset_AlwaysFixup(fd, td, used) ==
    IF IsStaticOrConstant(fd) THEN None
    ELSE LET offset == IF used < Len(td.computed_offsets)
                       THEN td.computed_offsets[used + 1]
                       ELSE fd.raw_offset
         IN IF td.is_value_type
            THEN IF offset >= ObjectSize THEN offset - ObjectSize
                 ELSE U32Max - (ObjectSize - offset) + 1
            ELSE offset

\* get_offset for the field `fd`, the i-th of the type `td`; `used` computed
\* offsets were taken from the iterator before.
get_offset(fd, td, used) ==
    IF IsStaticOrConstant(fd) THEN None
    ELSE LET offset == IF used < Len(td.computed_offsets)
                       THEN td.computed_offsets[used + 1]
                       ELSE fd.raw_offset
         IN IF td.is_value_type /\ offset >= ObjectSize
            THEN offset - ObjectSize
            ELSE offset

\* How many computed offsets the calls of get_offset for the first n fields took.
RECURSIVE ComputedUsed(_, _)
ComputedUsed(td, n) ==
    IF n = 0 THEN 0
    ELSE LET before == ComputedUsed(td, n - 1)
         IN IF ~IsStaticOrConstant(td.fields[n]) /\ before < Len(td.computed_offsets)
            THEN before + 1
            ELSE before

\* The filter_map closure of make_fields on the i-th field: <<>> when the field
\* is dropped, <<FieldInfo>> otherwise.
MakeFieldInfo(td, i) ==
    LET fd == td.fields[i]
        f_offset == get_offset(fd, td, ComputedUsed(td, i - 1))
    IN IF fd.denied /\ ~td.is_value_type /\ ~td.is_enum_type
       THEN <<>>
       ELSE <<[cpp_field |->
                 [name |-> fd.name, array_len |-> None, field_ty |-> "field",
                  offset |-> f_offset,
                  instance |-> ~fd.is_static /\ ~fd.is_constant,
                  is_private |-> FALSE],
               is_constant |-> fd.is_constant, is_static |-> fd.is_static,
               offset |-> f_offset, size |-> fd.size]>>

MakeFieldInfos(td) == Flatten([i \in 1..Len(td.fields) |-> MakeFieldInfo(td, i)])

IsStaticFieldInfo(f) == f.is_static /\ ~f.is_constant

\* handle_static_fields: a property and its accessors for every static field.
handle_static_fields(mems, fs, td) ==
    IF Len(td.fields) = 0 THEN mems
    ELSE LET statics == SelectSeq(fs, IsStaticFieldInfo)
         IN mems \o Flatten([i \in 1..Len(statics) |->
                <<prop_decl_from_fieldinfo(statics[i])>>
                    \o prop_methods_from_fieldinfo(statics[i])])

----------------------------------------------------------------------------
(* cpp_type.rs: create_size_padding *)

\* x & !m on unsigned integers.
RECURSIVE AndNot(_, _)
AndNot(x, m) ==
    IF x = 0 THEN 0
    ELSE (IF x % 2 = 1 /\ m % 2 = 0 THEN 1 ELSE 0) + 2 * AndNot(x \div 2, m \div 2)

AbsDiff(a, b) == IF a >= b THEN a - b ELSE b - a

closest_packing(size) ==
    CASE size = 0 -> 0
      [] size = 1 -> 1
      [] size = 2 -> 2
      [] size = 3 -> 4
      [] size = 4 -> 4
      [] OTHER -> 8

\* The aligned calculated size under the cargo feature `feat`.
aligned_calculated_size(si, feat) ==
    IF feat = "il2cpp_v29"
    THEN IF si.natural_alignment = 0
         THEN si.calculated_instance_size
         ELSE AndNot(AddU32(si.calculated_instance_size, si.natural_alignment),
                     si.natural_alignment - 1)
    ELSE si.calculated_instance_size

\* The length of the padding create_size_padding appends; 0 when it appends none.
SizePaddingLength(td, si_opt, pack, feat) ==
    IF td.metadata_instance_size = None THEN 0
    ELSE IF td.metadata_instance_size = 0 \/ td.metadata_instance_size = U32Max THEN 0
    ELSE IF si_opt = <<>> THEN 0
    ELSE LET si == si_opt[1] IN
         IF aligned_calculated_size(si, feat) = si.instance_size THEN 0
    ELSE LET remaining_size == AbsDiff(si.instance_size, si.calculated_instance_size)
             p == IF pack = None THEN closest_packing(si.calculated_instance_size)
                  ELSE pack
         IN IF p = 0 THEN remaining_size ELSE AndNot(remaining_size, p - 1)

SizePaddingField(si, len) ==
    FieldDecl([name |-> <<"_cordl_size_padding">>, array_len |-> len,
               field_ty |-> "uint8_t", offset |-> si.instance_size,
               instance |-> TRUE, is_private |-> FALSE])

create_size_padding(mems, td, si_opt, pack, feat) ==
    LET len == SizePaddingLength(td, si_opt, pack, feat)
    IN IF len = 0 THEN mems ELSE Append(mems, SizePaddingField(si_opt[1], len))

----------------------------------------------------------------------------
(* cpp_type.rs: CppTypeRequirements *)

EmptyRequirements ==
    [forward_declares |-> {}, required_def_includes |-> {},
     required_impl_includes |-> {}, depending_types |-> {}]

\* CppInclude: the include path as a sequence of its parts
new_system(path) == [include |-> <<path>>, system |-> TRUE]
new_exact(path) == [include |-> <<path>>, system |-> FALSE]
new_context_typedef(context) == [include |-> <<"typedef", context>>, system |-> FALSE]
new_context_typeimpl(context) == [include |-> <<"typeimpl", context>>, system |-> FALSE]

\* a forward declare that is dropped when it is recorded a second time
add_forward_declare_Toggling(req, cpp_data) ==
    [req EXCEPT !.forward_declares =
        IF cpp_data \in @ THEN @ \ {cpp_data} ELSE @ \cup {cpp_data}]

\* a forward declare that also records the definition include of its referent
add_forward_declare_Including(req, cpp_data) ==
    [req EXCEPT !.forward_declares = @ \cup {cpp_data},
                !.required_def_includes = @ \cup {cpp_data[2]}]

add_forward_declare(req, cpp_data) ==
    [req EXCEPT !.forward_declares = @ \cup {cpp_data}]

\* cpp_type_opt is <<>> for None, <<cpp_type>> for Some
add_def_include(req, cpp_type_opt, cpp_include) ==
    [req EXCEPT !.depending_types =
                    IF cpp_type_opt # <<>> THEN @ \cup {cpp_type_opt[1].self_tag} ELSE @,
                !.required_def_includes = @ \cup {cpp_include}]

add_impl_include(req, cpp_type_opt, cpp_include) ==
    [req EXCEPT !.depending_types =
                    IF cpp_type_opt # <<>> THEN @ \cup {cpp_type_opt[1].self_tag} ELSE @,
                !.required_impl_includes = @ \cup {cpp_include}]

add_dependency_tag(req, tag) ==
    [req EXCEPT !.depending_types = @ \cup {tag}]

needs_int_include(req) == add_def_include(req, <<>>, new_system("cstdint"))
needs_math_include(req) == add_def_include(req, <<>>, new_system("cmath"))
needs_stringw_include(req) ==
    add_def_include(req, <<>>, new_exact("beatsaber-hook/shared/utils/typedefs-string.hpp"))
needs_arrayw_include(req) ==
    add_def_include(req, <<>>, new_exact("beatsaber-hook/shared/utils/typedefs-array.hpp"))

----------------------------------------------------------------------------
(* The metadata snapshot read by name resolution *)

\* CsTypeTag
TdiTag(tdi) == [kind |-> "TypeDefinitionIndex", tdi |-> tdi, inst |-> <<>>]
InstTag(tdi, inst) == [kind |-> "GenericInstantiation", tdi |-> tdi, inst |-> inst]

TypeDef(name, value_type, enum_type, interface, template, context_root) ==
    [name |-> name, namespace |-> "NS", value_type |-> value_type,
     enum_type |-> enum_type, interface |-> interface,
     template |-> template, context_root |-> context_root]

\* global_metadata.type_definitions, indexed by TypeDefinitionIndex
TypeDefinitions ==
    << TypeDef("Foo",       FALSE, FALSE, FALSE, <<<<"T">>>>, 1),
       TypeDef("Other",     FALSE, FALSE, FALSE, <<>>,        2),
       TypeDef("Val",       TRUE,  FALSE, FALSE, <<>>,        3),
       TypeDef("Nested",    FALSE, FALSE, FALSE, <<>>,        1),
       TypeDef("Denied",    FALSE, FALSE, FALSE, <<>>,        5),
       TypeDef("DeniedVal", TRUE,  FALSE, FALSE, <<>>,        6),
       TypeDef("DeniedEnum", TRUE, TRUE,  FALSE, <<>>,        7),
       TypeDef("DeniedIface", FALSE, FALSE, TRUE, <<>>,       8),
       TypeDef("List",      FALSE, FALSE, FALSE, <<<<"T">>>>, 9),
       TypeDef("Box",       TRUE,  FALSE, FALSE, <<<<"T">>>>, 10),
       [TypeDef("Int32Enum", TRUE, FALSE, FALSE, <<>>, 11) EXCEPT !.namespace = "System"],
       [TypeDef("Int64Enum", TRUE, FALSE, FALSE, <<>>, 12) EXCEPT !.namespace = "System"],
       TypeDef("Val2",      TRUE,  FALSE, FALSE, <<>>,        13),
       TypeDef("DeniedVal2", TRUE, FALSE, FALSE, <<>>,        14) >>

blacklisted_types == {5, 6, 7, 8, 14}

Il2CppType(ty, data, valuetype) == [ty |-> ty, data |-> data, valuetype |-> valuetype]

\* metadata_registration.types, indexed by type index
Types ==
    << Il2CppType("Class", 1, FALSE),        \*  1  Foo
       Il2CppType("Class", 2, FALSE),        \*  2  Other
       Il2CppType("Valuetype", 3, TRUE),     \*  3  Val
       Il2CppType("Class", 4, FALSE),        \*  4  Nested
       Il2CppType("Class", 5, FALSE),        \*  5  Denied
       Il2CppType("Valuetype", 6, TRUE),     \*  6  DeniedVal
       Il2CppType("I4", None, TRUE),         \*  7
       Il2CppType("R4", None, TRUE),         \*  8
       Il2CppType("String", None, FALSE),    \*  9
       Il2CppType("Szarray", 2, FALSE),      \* 10  Other[]
       Il2CppType("Ptr", 3, FALSE),          \* 11  Val*
       Il2CppType("Genericinst", 1, FALSE),  \* 12  Foo<Other>
       Il2CppType("Genericinst", 2, FALSE),  \* 13  Foo<Val>
       Il2CppType("Genericinst", 3, FALSE),  \* 14  List<Val>
       Il2CppType("Genericinst", 4, FALSE),  \* 15  List<Foo<Other>>
       Il2CppType("Var", 1, FALSE),          \* 16  T of Foo
       Il2CppType("Mvar", 2, FALSE),         \* 17  TM of method 1
       Il2CppType("Array", None, FALSE),     \* 18  multi dimensional array
       Il2CppType("Fnptr", None, FALSE),     \* 19  no branch of the resolver
       Il2CppType("Class", 9, FALSE),        \* 20  List
       Il2CppType("Valuetype", 7, TRUE),     \* 21  DeniedEnum
       Il2CppType("Class", 8, FALSE),        \* 22  DeniedIface
       Il2CppType("Valuetype", 10, TRUE),    \* 23  Box
       Il2CppType("Genericinst", 5, TRUE),   \* 24  Box<Other>
       Il2CppType("Genericinst", 6, TRUE),   \* 25  Box<List>
       Il2CppType("Genericinst", 7, TRUE),   \* 26  Box<Val>
       Il2CppType("Valuetype", 11, TRUE),    \* 27  System.Int32Enum
       Il2CppType("Valuetype", 12, TRUE),    \* 28  System.Int64Enum
       Il2CppType("Valuetype", 13, TRUE),    \* 29  Val2
       Il2CppType("Valuetype", 14, TRUE),    \* 30  DeniedVal2
       Il2CppType("U4", None, TRUE),         \* 31
       Il2CppType("Genericinst", 8, TRUE) >> \* 32  Box<Box<Other>>

\* metadata_registration.generic_classes with their generic_insts
GenericClasses ==
    << [type_index |-> 1,  types |-> <<2>>],
       [type_index |-> 1,  types |-> <<3>>],
       [type_index |-> 20, types |-> <<3>>],
       [type_index |-> 20, types |-> <<12>>],
       [type_index |-> 23, types |-> <<2>>],
       [type_index |-> 23, types |-> <<20>>],
       [type_index |-> 23, types |-> <<3>>],
       [type_index |-> 23, types |-> <<24>>] >>

\* global_metadata.generic_parameters; owner_method is None for a type's parameter
GenericParameters ==
    << [name |-> "T",  num |-> 0, owner_method |-> None],
       [name |-> "TM", num |-> 0, owner_method |-> 1] >>

\* the raw types a resolution is asked for
ResolvedTypes == (1..19) \cup {21, 22}

----------------------------------------------------------------------------
(* NameComponents *)

\* namespace and generics are <<>> for None, <<x>> for Some(x)
NameComponents(namespace, name, generics, is_pointer) ==
    [namespace |-> namespace, declaring_types |-> <<>>, name |-> name,
     generics |-> generics, is_pointer |-> is_pointer]

\* From<String> for NameComponents
NameOf(name) == NameComponents(<<>>, name, <<>>, FALSE)

RECURSIVE JoinGenerics(_)
JoinGenerics(gs) ==
    IF gs = <<>> THEN <<>>
    ELSE IF Len(gs) = 1 THEN gs[1]
    ELSE gs[1] \o <<",">> \o JoinGenerics(Tail(gs))

\* the formatted name, as the sequence of its parts
combine_all(n) ==
    (IF n.namespace = <<>> THEN <<>> ELSE <<"::", n.namespace[1], "::">>)
    \o <<n.name>>
    \o (IF n.generics = <<>> THEN <<>> ELSE <<"<">> \o JoinGenerics(n.generics[1]) \o <<">">>)
    \o (IF n.is_pointer THEN <<"*">> ELSE <<>>)

Il2CppObjectPointer == NameComponents(<<>>, "Il2CppObject", <<>>, TRUE)

\* a wrapper_type_for_tdi that knows the object handle only
wrapper_type_for_tdi_ObjectOnly(td) == "Il2CppObject"

wrapper_type_for_tdi(td) ==
    IF td.enum_type THEN "::bs_hook::EnumType"
    ELSE IF td.value_type THEN "::bs_hook::ValueType"
    ELSE IF td.interface THEN "::cordl_internals::InterfaceW"
    ELSE "Il2CppObject"

PrimitiveName(ty) ==
    CASE ty = "I1" -> "int8_t"   [] ty = "I2" -> "int16_t"
      [] ty = "I4" -> "int32_t"  [] ty = "I8" -> "int64_t"
      [] ty = "U1" -> "uint8_t"  [] ty = "U2" -> "uint16_t"
      [] ty = "U4" -> "uint32_t" [] ty = "U8" -> "uint64_t"
      [] ty = "R4" -> "float_t"  [] ty = "R8" -> "double_t"
      [] ty = "Void" -> "void"   [] ty = "Boolean" -> "bool"
      [] ty = "Char" -> "char16_t"
      [] OTHER -> "/* UNKNOWN TYPE! */"

----------------------------------------------------------------------------
(* CppContextCollection *)

\* the CppType the collection holds for a type definition
CppTypeOfDefinition(tdi) ==
    LET td == TypeDefinitions[tdi] IN
    [self_tag |-> TdiTag(tdi),
     cpp_name_components |->
        NameComponents(<<td.namespace>>, td.name,
            IF td.template = <<>> THEN <<>>
            ELSE <<[i \in DOMAIN td.template[1] |-> <<td.template[1][i]>>]>>,
            ~td.value_type),
     is_value_type |-> td.value_type,
     nested |-> FALSE,
     cpp_template |-> td.template,
     generic_instantiation_args |-> <<>>,
     generic_instantiations_args_types |-> <<>>,
     method_generic_instantiation_map |-> <<>>,
     requirements |-> EmptyRequirements,
     parent |-> <<>>,
     members |-> <<>>,
     filled |-> FALSE]

\* the types made by make_cs_type, none for a deny-listed definition
InitialCollection ==
    [tdi \in (DOMAIN TypeDefinitions) \ blacklisted_types |-> CppTypeOfDefinition(tdi)]

get_cpp_type(tag) == collection[tag.tdi]

\* the context (emission unit) of a type, named after its root type
get_context_root_tag(tag) == TdiTag(TypeDefinitions[tag.tdi].context_root)
get_context(tag) == TypeDefinitions[TypeDefinitions[tag.tdi].context_root].name

from_cpp_type(ty) ==
    [is_struct |-> ty.is_value_type,
     namespace |-> IF ty.nested THEN <<>> ELSE ty.cpp_name_components.namespace,
     name |-> ty.cpp_name_components.name,
     templates |-> ty.cpp_template,
     literals |-> ty.generic_instantiation_args]

----------------------------------------------------------------------------
(* cpp_type.rs: cppify_name_il2cpp_recurse, cppify_name_il2cpp *)

IntTypes == {"I1", "U1", "I2", "U2", "I4", "U4", "I8", "U8", "I", "U"}
ReferentTypes == {"Object", "Valuetype", "Class", "Typedbyref", "I", "U"}

Resolved(name, req) == [name |-> name, requirements |-> req]

\* the Object | Valuetype | Class | Typedbyref | I | U branch
CppifyReferent(self, req, typ, add_include) ==
    LET typ_cpp_tag == TdiTag(typ.data)
        td == TypeDefinitions[typ.data]
    IN  IF typ_cpp_tag = self.self_tag
        THEN Resolved(self.cpp_name_components, req)
        ELSE IF typ.data \in blacklisted_types
        THEN IF typ.ty = "Class"
             THEN Resolved(Il2CppObjectPointer, req)
             ELSE Resolved(NameOf(wrapper_type_for_tdi(td)), req)
        ELSE
        LET req1 == IF add_include THEN add_dependency_tag(req, typ_cpp_tag) ELSE req
            to_incl == get_context(typ_cpp_tag)
            other_context_ty == get_context_root_tag(typ_cpp_tag)
            own_context_ty == get_context_root_tag(self.self_tag)
            typedef_incl == new_context_typedef(to_incl)
            typeimpl_incl == new_context_typeimpl(to_incl)
            to_incl_cpp_ty == get_cpp_type(typ_cpp_tag)
            own_context == other_context_ty = own_context_ty
            req2 == IF own_context THEN req1
                    ELSE IF add_include
                    THEN add_impl_include(
                            add_def_include(req1, <<to_incl_cpp_ty>>, typedef_incl),
                            <<to_incl_cpp_ty>>, typeimpl_incl)
                    ELSE add_forward_declare(
                            req1, <<from_cpp_type(to_incl_cpp_ty), typedef_incl>>)
        IN  Resolved(to_incl_cpp_ty.cpp_name_components, req2)

\* the outcome of a call that panics instead of returning a name
Panic == NameOf("panic!")

\* the Var branch: a generic parameter of the declaring type
CppifyVar(self, req, typ) ==
    LET generic_param == GenericParameters[typ.data]
        args == self.generic_instantiations_args_types
        ty_idx_opt == IF args # <<>> /\ generic_param.num < Len(args[1])
                      THEN <<args[1][generic_param.num + 1]>> ELSE <<>>
        template_names == IF self.cpp_template = <<>> THEN {}
                          ELSE {self.cpp_template[1][i] : i \in DOMAIN self.cpp_template[1]}
    IN  IF ty_idx_opt = <<>>
        THEN IF generic_param.name \in template_names
             THEN Resolved(NameOf(generic_param.name), req)
             ELSE Resolved(Panic, req)
        ELSE
        LET ty_var == Types[ty_idx_opt[1]]
            resolved_var == self.cpp_name_components.generics[1][generic_param.num + 1]
            is_pointer == ~ty_var.valuetype
                          /\ \A n \in template_names : <<n>> # resolved_var
        IN  Resolved([namespace |-> <<>>, declaring_types |-> <<>>, name |-> resolved_var,
                      generics |-> <<>>, is_pointer |-> is_pointer], req)

RECURSIVE cppify_name_il2cpp_recurse(_, _, _, _, _, _)
RECURSIVE CppifyGenericArgs(_, _, _, _, _, _)

\* the generic arguments of a Genericinst, resolved left to right
CppifyGenericArgs(self, req, types, next_include_depth, declaring, formatted) ==
    IF Len(formatted) = Len(types) THEN Resolved(formatted, req)
    ELSE
    LET gen_arg_t == Types[types[Len(formatted) + 1]]
        should_include == gen_arg_t.valuetype
        gen_include_detch == IF should_include THEN next_include_depth ELSE 0
        r == cppify_name_il2cpp_recurse(self, req, gen_arg_t, gen_include_detch,
                                        declaring, "GenericArg")
    IN  CppifyGenericArgs(self, r.requirements, types, next_include_depth, declaring,
                          Append(formatted, combine_all(r.name)))

cppify_name_il2cpp_recurse(self, req0, typ, include_depth, declaring, typ_usage) ==
    LET add_include == include_depth > 0
        next_include_depth == IF add_include THEN include_depth - 1 ELSE 0
        req == IF typ.ty \in IntTypes THEN needs_int_include(req0)
               ELSE IF typ.ty \in {"R4", "R8"} THEN needs_math_include(req0)
               ELSE req0
    IN  CASE typ.ty \in ReferentTypes -> CppifyReferent(self, req, typ, add_include)
          [] typ.ty = "Szarray" ->
               LET generic == cppify_name_il2cpp_recurse(
                                  self, needs_arrayw_include(req), Types[typ.data],
                                  include_depth, declaring, typ_usage)
                   generic_formatted == combine_all(generic.name)
               IN  Resolved(
                     NameComponents(<<"">>, "ArrayW",
                        << <<generic_formatted,
                             <<"::Array<">> \o generic_formatted \o <<">*">> >> >>,
                        FALSE),
                     generic.requirements)
          [] typ.ty = "Array" -> Resolved(Il2CppObjectPointer, req)
          [] typ.ty = "Mvar" ->
               LET generic_param == GenericParameters[typ.data]
                   method_index == generic_param.owner_method
                   map == self.method_generic_instantiation_map
               IN  IF method_index \notin DOMAIN map
                   THEN Resolved(NameOf(generic_param.name), req)
                   ELSE cppify_name_il2cpp_recurse(
                            self, req, Types[map[method_index][generic_param.num + 1]],
                            include_depth, declaring, "GenericArg")
          [] typ.ty = "Var" -> CppifyVar(self, req, typ)
          [] typ.ty = "Genericinst" ->
               LET generic_class == GenericClasses[typ.data]
                   new_generic_inst_types == generic_class.types
                   generic_type_def == Types[generic_class.type_index]
                   tdi == generic_type_def.data
                   generic_tag == InstTag(tdi, new_generic_inst_types)
                   req1 == IF add_include
                           THEN add_dependency_tag(add_dependency_tag(req, TdiTag(tdi)),
                                                   generic_tag)
                           ELSE req
                   generic_types_formatted ==
                       CppifyGenericArgs(self, req1, new_generic_inst_types,
                                         next_include_depth, declaring, <<>>)
                   type_def_name_components ==
                       cppify_name_il2cpp_recurse(
                           self, generic_types_formatted.requirements, generic_type_def,
                           include_depth, <<new_generic_inst_types>>, typ_usage)
               IN  Resolved([type_def_name_components.name EXCEPT
                                !.generics = <<generic_types_formatted.name>>],
                            type_def_name_components.requirements)
          [] typ.ty = "String" -> Resolved(NameOf("::StringW"), needs_stringw_include(req))
          [] typ.ty = "Ptr" ->
               LET generic == cppify_name_il2cpp_recurse(
                                  self, req, Types[typ.data], include_depth,
                                  declaring, typ_usage)
               IN  Resolved(NameComponents(<<"cordl_internals">>, "Ptr",
                                           <<<<combine_all(generic.name)>>>>, FALSE),
                            generic.requirements)
          [] OTHER -> Resolved(NameOf(PrimitiveName(typ.ty)), req)

cppify_name_il2cpp(self, typ, include_depth, typ_usage) ==
    LET requirements0 == self.requirements
        res == cppify_name_il2cpp_recurse(
                   self, requirements0, typ, include_depth,
                   self.generic_instantiations_args_types, typ_usage)
    IN  [name |-> res.name, cpp_type |-> [self EXCEPT !.requirements = res.requirements]]

\* no function is applied on its own
CallIdle == arguments = <<>> /\ returned = <<>>

\* no CppType is resolving names
ResolveIdle == cpp_type = <<>> /\ resolved = <<>> /\ collection = InitialCollection

----------------------------------------------------------------------------
(* Filling one type: make_fields, then create_size_padding *)

MakeFields ==
    /\ pc = "make_fields"
    /\ fields' = MakeFieldInfos(t)
    /\ pc' = IF Len(t.fields) = 0 THEN "size_padding" ELSE "handle_fields"
    /\ UNCHANGED <<callVars, resolveVars, unionVars, t, members, size_info, packing, feature>>

HandleFields ==
    /\ pc = "handle_fields"
    /\ members' = IF t.is_value_type \/ t.is_enum_type
                  THEN handle_valuetype_fields(members, fields, t)
                  ELSE handle_referencetype_fields(members, fields, t)
    /\ pc' = "handle_static_const"
    /\ UNCHANGED <<callVars, resolveVars, unionVars, t, fields, size_info, packing, feature>>

HandleStaticConstFields ==
    /\ pc = "handle_static_const"
    /\ members' = handle_const_fields(handle_static_fields(members, fields, t), fields, t)
    /\ pc' = "size_padding"
    /\ UNCHANGED <<callVars, resolveVars, unionVars, t, fields, size_info, packing, feature>>

CreateSizePadding ==
    /\ pc = "size_padding"
    /\ members' = create_size_padding(members, t, size_info, packing, feature)
    /\ pc' = "done"
    /\ UNCHANGED <<callVars, resolveVars, unionVars, t, fields, size_info, packing, feature>>

Next == MakeFields \/ HandleFields \/ HandleStaticConstFields \/ CreateSizePadding

----------------------------------------------------------------------------
(* Inputs of the unionization functions *)

UnionOffsets == {0, 4, 8}
UnionSizes == {4, 8}
FieldNames == <<"A", "B", "C", "D", "E">>

UnionFieldLists ==
    UNION {{[i \in 1..n |-> FieldInfo(<<FieldNames[i]>>, os[i][1], os[i][2], FALSE, FALSE)] :
              os \in [1..n -> UnionOffsets \X UnionSizes]} : n \in 0..MaxUnionFields}

NoType ==
    [is_value_type |-> FALSE, is_enum_type |-> FALSE, is_explicit_layout |-> FALSE,
     fields |-> <<>>, computed_offsets |-> <<>>, metadata_instance_size |-> None]

InitUnion ==
    /\ pc = "unionize"
    /\ instance_fields \in UnionFieldLists
    /\ unionized = <<>>
    /\ t = NoType
    /\ fields = <<>>
    /\ members = <<>>
    /\ size_info = <<>>
    /\ packing = None
    /\ feature = "il2cpp_v31"
    /\ ResolveIdle
    /\ CallIdle

MakeOrUnionizeFields ==
    /\ pc = "unionize"
    /\ \E r \in make_or_unionize_fields(instance_fields) : unionized' = r
    /\ pc' = "unionized"
    /\ UNCHANGED <<instance_fields, typeVars, resolveVars, callVars>>

NextUnion == MakeOrUnionizeFields

SpecUnion == InitUnion /\ [][NextUnion]_vars


----------------------------------------------------------------------------
(* Inputs of the type-filling pipeline *)

MaxFields == 2

\* (is_value_type, is_enum_type) of a reference type, a struct and an enum.
TypeKinds == {<<FALSE, FALSE>>, <<TRUE, FALSE>>, <<TRUE, TRUE>>}

FieldDef(name, is_static, is_constant, raw_offset, size, denied) ==
    [name |-> name, is_static |-> is_static, is_constant |-> is_constant,
     raw_offset |-> raw_offset, size |-> size, denied |-> denied]

\* The field definitions a field table is drawn from, before they are named:
\* instance fields at the given raw offsets and sizes, one static field, one
\* constant and one instance field of a deny-listed type.
FieldDefs(rawOffsets, sizes) ==
    {FieldDef(<<>>, FALSE, FALSE, o, s, FALSE) : o \in rawOffsets, s \in sizes}
        \cup {FieldDef(<<>>, TRUE, FALSE, 0, 4, FALSE),
              FieldDef(<<>>, TRUE, TRUE, 0, 4, FALSE),
              FieldDef(<<>>, FALSE, FALSE, 24, 8, TRUE)}

FieldTables(defs, maxLen) ==
    UNION {{[i \in 1..n |-> [f[i] EXCEPT !.name = <<FieldNames[i]>>]] :
              f \in [1..n -> defs]} : n \in 0..maxLen}

TypeDefinition(kind, explicit, fieldTable, computed, metaSize) ==
    [is_value_type |-> kind[1], is_enum_type |-> kind[2],
     is_explicit_layout |-> explicit, fields |-> fieldTable,
     computed_offsets |-> computed, metadata_instance_size |-> metaSize]

SizeInfo(instance_size, natural_alignment, calculated_instance_size) ==
    [instance_size |-> instance_size, natural_alignment |-> natural_alignment,
     calculated_instance_size |-> calculated_instance_size]

Features == {"il2cpp_v29", "il2cpp_v31"}

RawOffsets == {8, 16, 32}
FieldSizes == {4, 8}

Init ==
    /\ pc = "make_fields"
    /\ instance_fields = <<>>
    /\ unionized = <<>>
    /\ \E kind \in TypeKinds, explicit \in BOOLEAN,
          tab \in FieldTables(FieldDefs(RawOffsets, FieldSizes), MaxFields),
          computed \in {<<>>, <<48>>} :
            t = TypeDefinition(kind, explicit, tab, computed, 64)
    /\ fields = <<>>
    /\ members = <<>>
    /\ size_info = <<SizeInfo(64, 8, 64)>>
    /\ packing = None
    /\ feature \in Features
    /\ ResolveIdle
    /\ CallIdle

Spec == Init /\ [][Next]_vars

----------------------------------------------------------------------------
(* Inputs of create_size_padding *)

MaxPadFields == 1

PadSizes == {8, 12, 24, 31, 32}
Alignments == {0, 1, 2, 4, 8, 16}
Packings == {None, 0, 1, 2, 4, 8, 16}

SizeInfos == {SizeInfo(r, a, c) : r \in PadSizes, a \in Alignments, c \in PadSizes}

InitPadding ==
    /\ pc = "make_fields"
    /\ instance_fields = <<>>
    /\ unionized = <<>>
    /\ \E kind \in {<<FALSE, FALSE>>, <<TRUE, FALSE>>},
          tab \in FieldTables({FieldDef(<<>>, FALSE, FALSE, 16, 8, FALSE)}, MaxPadFields),
          metaSize \in {None, 0, 32} :
            t = TypeDefinition(kind, FALSE, tab, <<>>, metaSize)
    /\ fields = <<>>
    /\ members = <<>>
    /\ size_info \in {<<>>} \cup {<<si>> : si \in SizeInfos}
    /\ packing \in Packings
    /\ feature \in Features
    /\ ResolveIdle
    /\ CallIdle

SpecPadding == InitPadding /\ [][Next]_vars

----------------------------------------------------------------------------
(* Inputs of the end-to-end layout of a value type *)

MaxLayoutFields == 4

LayoutRawOffsets == {16, 17, 18, 20}
LayoutSizes == {1, 2, 4}

InitLayout ==
    /\ pc = "make_fields"
    /\ instance_fields = <<>>
    /\ unionized = <<>>
    /\ \E tab \in FieldTables(
              {FieldDef(<<>>, FALSE, FALSE, o, s, FALSE) :
                  o \in LayoutRawOffsets, s \in LayoutSizes}, MaxLayoutFields) :
            t = TypeDefinition(<<TRUE, FALSE>>, FALSE, tab, <<>>, 12)
    /\ fields = <<>>
    /\ members = <<>>
    /\ size_info = <<SizeInfo(12, 4, 8)>>
    /\ packing = None
    /\ feature \in Features
    /\ ResolveIdle
    /\ CallIdle

SpecLayout == InitLayout /\ [][Next]_vars

----------------------------------------------------------------------------
(* Inputs of name resolution *)

MaxCalls == 2
MaxIncludeDepth == 2

TypeUsages == {"TypeName", "Field"}

\* the generic type definition Foo<T>, resolving names for its own members
FooTemplate == CppTypeOfDefinition(1)

\* the instantiation of Foo with the argument Types[arg]
FooInstantiation(arg) ==
    LET arg_name == combine_all(CppTypeOfDefinition(Types[arg].data).cpp_name_components)
    IN  [CppTypeOfDefinition(1) EXCEPT
            !.self_tag = InstTag(1, <<arg>>),
            !.cpp_name_components.generics = << <<arg_name>> >>,
            !.cpp_template = << <<>> >>,
            !.generic_instantiation_args = << <<arg_name>> >>,
            !.generic_instantiations_args_types = << <<arg>> >>]

ResolvingTypes == {FooTemplate, FooInstantiation(2), FooInstantiation(3)}

\* add_method_generic_inst: no instantiation, or method 1 instantiated with Val
MethodInstantiations == {<<>>, << <<3>> >>}

InitResolve ==
    /\ pc = "resolve"
    /\ instance_fields = <<>>
    /\ unionized = <<>>
    /\ t = NoType
    /\ fields = <<>>
    /\ members = <<>>
    /\ size_info = <<>>
    /\ packing = None
    /\ feature = "il2cpp_v31"
    /\ \E ty \in ResolvingTypes, map \in MethodInstantiations :
          cpp_type = [ty EXCEPT !.method_generic_instantiation_map = map]
    /\ resolved = <<>>
    /\ collection = InitialCollection
    /\ CallIdle

CppifyName ==
    /\ pc = "resolve"
    /\ Len(resolved) < MaxCalls
    /\ \E typ \in ResolvedTypes, include_depth \in 0..MaxIncludeDepth,
          typ_usage \in TypeUsages :
          LET res == cppify_name_il2cpp(cpp_type, Types[typ], include_depth, typ_usage)
          IN  /\ cpp_type' = res.cpp_type
              /\ resolved' = Append(resolved,
                    [typ |-> typ, include_depth |-> include_depth,
                     typ_usage |-> typ_usage, name |-> res.name,
                     requirements |-> res.cpp_type.requirements])
    /\ UNCHANGED <<pc, collection, unionVars, typeVars, callVars>>

NextResolve == CppifyName

SpecResolve == InitResolve /\ [][NextResolve]_vars

----------------------------------------------------------------------------
(* Helpers of the properties *)

Range(s) == {s[i] : i \in DOMAIN s}

IsUnionMember(m) == m.kind = "NestedUnion"
IsFieldMember(m) == m.kind = "FieldDecl"
IsSizePadding(m) == m.kind = "FieldDecl" /\ m.field.name = <<"_cordl_size_padding">>

\* The fields declared directly in a member list.
PlainFields(mems) == {m.field : m \in {x \in Range(mems) : x.kind = "FieldDecl"}}

\* The fields declared inside the unions of a member list: as a branch, or in a
\* struct that is a branch.
UnionFields(mems) ==
    UNION {PlainFields(u.declarations)
             \cup UNION {PlainFields(st.declarations) :
                           st \in {x \in Range(u.declarations) : x.kind = "NestedStruct"}} :
           u \in {x \in Range(mems) : x.kind = "NestedUnion"}}

\* The metadata fields of the type whose name occurs in the field name `name`.
NamedDefs(name) == {fd \in Range(t.fields) : fd.name[1] \in Range(name)}

FieldsHandled == pc \in {"handle_static_const", "size_padding", "done"}

----------------------------------------------------------------------------
(* C1 *)

C1_A == FieldInfo(<<"A">>, 0, 4, FALSE, FALSE)
C1_B == FieldInfo(<<"B">>, 0, 8, FALSE, FALSE)
C1_C == FieldInfo(<<"C">>, 8, 4, FALSE, FALSE)

C1_Case == pc = "unionized" /\ instance_fields = <<C1_A, C1_B, C1_C>>

\* C1 as stated: for A(0,4), B(0,8), C(8,4) make_or_unionize_fields returns
\* exactly one union whose two branches are B and a struct of A then C, and
\* nothing outside that union.
C1_Original ==
    C1_Case =>
        /\ Len(unionized) = 1
        /\ unionized[1].kind = "NestedUnion"
        /\ Len(unionized[1].declarations) = 2
        /\ Range(unionized[1].declarations) =
              {FieldDecl(C1_B.cpp_field),
               NestedStruct(<<FieldDecl(C1_A.cpp_field), FieldDecl(C1_C.cpp_field)>>, None)}

\* C1 amended: for A(0,4), B(0,8), C(8,4) make_or_unionize_fields returns two
\* members, in either order: one union at offset 0 whose two branches are the
\* single fields B and A, and C as a plain field outside that union.
C1_Unionize_ABC ==
    C1_Case =>
        /\ Len(unionized) = 2
        /\ Range(unionized) =
              {NestedUnion(<<FieldDecl(C1_B.cpp_field), FieldDecl(C1_A.cpp_field)>>, 0, FALSE),
               FieldDecl(C1_C.cpp_field)}

C1_Witness == C1_Case /\ \E i \in 1..Len(unionized) : unionized[i].kind = "NestedUnion"

----------------------------------------------------------------------------
(* C2 *)

C2_Structs(u, i) == <<u.declarations[2 * i - 1], u.declarations[2 * i]>>

\* Whether struct `st` is a uint8_t pad of `o` bytes followed by the field
\* called `name` at offset `o`, with packing `pack`.
C2_PadThenField(st, o, name, pack) ==
    /\ st.kind = "NestedStruct"
    /\ st.packing = pack
    /\ Len(st.declarations) = 2
    /\ st.declarations[1].kind = "FieldDecl"
    /\ st.declarations[1].field.field_ty = "uint8_t"
    /\ st.declarations[1].field.array_len = o
    /\ st.declarations[2].kind = "FieldDecl"
    /\ st.declarations[2].field.name = name
    /\ st.declarations[2].field.field_ty = "field"
    /\ st.declarations[2].field.offset = o

\* C2: once the fields of an explicit-layout type are handled, its members hold
\* one union of 2N structs for its N instance fields; the field with offset o
\* gives a struct packed at 1 and then one without packing override, each a
\* uint8_t pad of o bytes followed by the field.
C2_ExplicitLayoutPairs ==
    (FieldsHandled /\ t.is_explicit_layout /\ Len(t.fields) > 0) =>
        LET inst == SelectSeq(fields, IsInstanceFieldInfo)
            unions == SelectSeq(members, IsUnionMember)
        IN /\ Len(unions) = 1
           /\ Len(unions[1].declarations) = 2 * Len(inst)
           /\ \A i \in 1..Len(inst) :
                LET pair == C2_Structs(unions[1], i)
                    backing == <<"___">> \o inst[i].cpp_field.name
                IN /\ C2_PadThenField(pair[1], inst[i].offset, backing, 1)
                   /\ C2_PadThenField(pair[2], inst[i].offset,
                                      backing \o <<"_forAlignment">>, None)

\* A handled explicit-layout type with two instance fields, one of them of
\* size 4 at offset 0x10, whose union holds four structs.
C2_Witness ==
    /\ pc = "done"
    /\ t.is_explicit_layout
    /\ Len(SelectSeq(fields, IsInstanceFieldInfo)) = 2
    /\ \E i \in 1..Len(fields) : fields[i].offset = 16 /\ fields[i].size = 4
    /\ \E i \in 1..Len(members) :
          members[i].kind = "NestedUnion" /\ Len(members[i].declarations) = 4

----------------------------------------------------------------------------
(* C3 *)

SizePaddings == SelectSeq(members, IsSizePadding)

C3_Sized == t.metadata_instance_size = 32 /\ size_info # <<>> /\ packing = 8

\* C3 as stated: calculated 0x18, reported 0x20, packing 8 appends exactly one
\* padding field of 8 bytes, and calculated 0x1F appends none, whatever the
\* natural alignment is.
C3_Original ==
    (pc = "done" /\ C3_Sized /\ size_info[1].instance_size = 32) =>
        /\ size_info[1].calculated_instance_size = 24 =>
              Len(SizePaddings) = 1 /\ SizePaddings[1].field.array_len = 8
        /\ size_info[1].calculated_instance_size = 31 => Len(SizePaddings) = 0

----------------------------------------------------------------------------
(* C4 *)

C4_Fields ==
    <<FieldDef(<<"A">>, FALSE, FALSE, 16, 1, FALSE),
      FieldDef(<<"B">>, FALSE, FALSE, 17, 1, FALSE),
      FieldDef(<<"C">>, FALSE, FALSE, 18, 2, FALSE),
      FieldDef(<<"D">>, FALSE, FALSE, 20, 4, FALSE)>>

\* C4 as stated: a value type without explicit layout with fields of sizes
\* 1, 1, 2, 4 at offsets 0, 1, 2, 4, calculated size 8, reported size 12 and no
\* packing override gets its four fields as plain fields, no union, and exactly
\* one padding field of 4 bytes at offset 8.
C4_Original ==
    (/\ pc = "done"
     /\ t.fields = C4_Fields
     /\ t.is_value_type /\ ~t.is_explicit_layout
     /\ size_info = <<SizeInfo(12, size_info[1].natural_alignment, 8)>>
     /\ packing = None) =>
        /\ Len(members) = 5
        /\ \A i \in 1..4 :
              /\ members[i].kind = "FieldDecl"
              /\ members[i].field.name = C4_Fields[i].name
              /\ members[i].field.offset = C4_Fields[i].raw_offset - ObjectSize
        /\ IsSizePadding(members[5])
        /\ members[5].field.array_len = 4
        /\ members[5].field.offset = 8

----------------------------------------------------------------------------
(* C8 *)

DefNamed(name) == CHOOSE fd \in Range(t.fields) : fd.name = name

\* C8: a field built by make_fields has offset None and instance = false
\* exactly when its type is static or constant; and what the instance-field
\* handling emits, as plain fields or inside the explicit-layout union, never
\* comes from a static or constant field.
C8_StaticNoOffset ==
    /\ pc # "make_fields" =>
          \A i \in 1..Len(fields) :
             LET f == fields[i]
                 fd == DefNamed(f.cpp_field.name)
             IN /\ (f.cpp_field.offset = None) <=> (fd.is_static \/ fd.is_constant)
                /\ (f.cpp_field.instance = FALSE) <=> (fd.is_static \/ fd.is_constant)
                /\ f.offset = f.cpp_field.offset
    /\ pc = "handle_static_const" =>
          \A f \in PlainFields(members) \cup UnionFields(members) :
             \A fd \in NamedDefs(f.name) : ~fd.is_static /\ ~fd.is_constant
    /\ FieldsHandled =>
          \A f \in UnionFields(members) :
             \A fd \in NamedDefs(f.name) : ~fd.is_static /\ ~fd.is_constant

\* The fields of a type with a static or constant field beside an instance
\* field have been handled.
C8_Witness ==
    /\ pc = "handle_static_const"
    /\ \E i \in 1..Len(fields) : fields[i].offset = None
    /\ \E i \in 1..Len(fields) : fields[i].offset # None
    /\ PlainFields(members) \cup UnionFields(members) # {}

----------------------------------------------------------------------------
(* C9 *)

\* Two fields declared as plain siblings whose byte ranges overlap.
C9_PlainOverlap(mems) ==
    \E i, j \in 1..Len(fields) :
        /\ i # j
        /\ IsInstanceFieldInfo(fields[i]) /\ IsInstanceFieldInfo(fields[j])
        /\ fields[i].offset < fields[j].offset + fields[j].size
        /\ fields[j].offset < fields[i].offset + fields[i].size
        /\ \E f, g \in PlainFields(mems) :
              /\ fields[i].cpp_field.name[1] \in Range(f.name)
              /\ fields[j].cpp_field.name[1] \in Range(g.name)

\* C9 as stated: when the instance fields of a type without explicit layout
\* collide, the handled member list holds at least one union and never holds
\* the colliding fields as plain siblings.
C9_Original ==
    (/\ FieldsHandled
     /\ ~t.is_explicit_layout
     /\ field_collision_check(SelectSeq(fields, IsInstanceFieldInfo))) =>
        /\ \E i \in 1..Len(members) : members[i].kind = "NestedUnion"
        /\ ~C9_PlainOverlap(members)

----------------------------------------------------------------------------
(* C10 *)

\* C10 as stated: a padding field is emitted only when the calculated instance
\* size is smaller than the reported one, and the calculated size plus the
\* padding never exceeds the reported size.
C10_Original ==
    (pc = "done" /\ size_info # <<>>) =>
        \A i \in 1..Len(SizePaddings) :
            /\ size_info[1].calculated_instance_size < size_info[1].instance_size
            /\ size_info[1].calculated_instance_size + SizePaddings[i].field.array_len
                  <= size_info[1].instance_size

----------------------------------------------------------------------------
(* Helpers of the name-resolution properties *)

Resolving == pc = "resolve"

\* the tag of the generic type definition a CppType was made from
DefinitionTag(ty) == TdiTag(ty.self_tag.tdi)

\* a Genericinst of the resolving type's own definition, with a reference-typed argument
SelfInstantiationTypes ==
    {i \in ResolvedTypes :
        /\ Types[i].ty = "Genericinst"
        /\ Types[GenericClasses[Types[i].data].type_index].data = 1
        /\ \A a \in DOMAIN GenericClasses[Types[i].data].types :
               ~Types[GenericClasses[Types[i].data].types[a]].valuetype}

\* the tag of a Genericinst raw type
InstantiationTag(typ) ==
    InstTag(Types[GenericClasses[Types[typ].data].type_index].data,
            GenericClasses[Types[typ].data].types)

\* the dependencies the i-th call added
RecordedTags(i) ==
    resolved[i].requirements.depending_types
        \ (IF i = 1 THEN {} ELSE resolved[i - 1].requirements.depending_types)

SameCall(a, b) ==
    /\ a.typ = b.typ
    /\ a.include_depth = b.include_depth
    /\ a.typ_usage = b.typ_usage

ForwardDeclared(req, tdi) ==
    <<from_cpp_type(get_cpp_type(TdiTag(tdi))), new_context_typedef(get_context(TdiTag(tdi)))>>
        \in req.forward_declares

DefIncluded(req, tdi) ==
    new_context_typedef(get_context(TdiTag(tdi))) \in req.required_def_includes

----------------------------------------------------------------------------
(* C5 *)

\* C5 (as stated): after any sequence of name resolutions the resolving type's own
\* tag is never in its depending_types; resolving a generic instantiation of the
\* type itself records neither its definition tag nor its instantiation tag.
C5_Original ==
    Resolving =>
        /\ cpp_type.self_tag \notin cpp_type.requirements.depending_types
        /\ \A i \in DOMAIN resolved :
              (resolved[i].typ \in SelfInstantiationTypes /\ resolved[i].include_depth > 0)
                  => RecordedTags(i) \cap {DefinitionTag(cpp_type), InstantiationTag(resolved[i].typ)} = {}

----------------------------------------------------------------------------
(* C6 *)

\* C6 (as stated): after any sequence of name resolutions by one type, no referent
\* is recorded both in forward_declares and in required_def_includes.
C6_Original ==
    Resolving =>
        \A tdi \in DOMAIN collection :
            ~(ForwardDeclared(cpp_type.requirements, tdi)
              /\ DefIncluded(cpp_type.requirements, tdi))

----------------------------------------------------------------------------
(* C7 *)

\* C7: two cppify_name_il2cpp calls in a row with the same raw type, include_depth
\* and usage (the generic context being the resolving type's own) return the same
\* name, and the requirements after the second call equal those after the first.
C7_Idempotent ==
    \A i \in 1..(Len(resolved) - 1) :
        SameCall(resolved[i], resolved[i + 1]) =>
            /\ resolved[i + 1].name = resolved[i].name
            /\ resolved[i + 1].requirements = resolved[i].requirements

\* the same call made twice, having recorded a forward declare, includes and
\* dependencies
C7_Witness ==
    \E i \in 1..(Len(resolved) - 1) :
        /\ SameCall(resolved[i], resolved[i + 1])
        /\ resolved[i].include_depth > 0
        /\ resolved[i + 1].requirements.forward_declares # {}
        /\ resolved[i + 1].requirements.depending_types # {}
        /\ resolved[i + 1].requirements.required_impl_includes # {}

----------------------------------------------------------------------------
(* C11 *)

\* the requirements before the i-th call
RequirementsBefore(i) ==
    IF i = 1 THEN EmptyRequirements ELSE resolved[i - 1].requirements

\* the i-th call resolved a Class or Valuetype reference to a deny-listed definition
DeniedCall(i) ==
    /\ Types[resolved[i].typ].ty \in {"Class", "Valuetype"}
    /\ Types[resolved[i].typ].data \in blacklisted_types

DeniedHandle(typ) ==
    LET td == TypeDefinitions[Types[typ].data] IN
    IF Types[typ].ty = "Class"
    THEN [namespace |-> <<>>, declaring_types |-> <<>>, name |-> "Il2CppObject",
          generics |-> <<>>, is_pointer |-> TRUE]
    ELSE [namespace |-> <<>>, declaring_types |-> <<>>,
          name |-> IF td.enum_type THEN "::bs_hook::EnumType" ELSE "::bs_hook::ValueType",
          generics |-> <<>>, is_pointer |-> FALSE]

----------------------------------------------------------------------------
(* C12 *)

\* make_fields has built the FieldInfo list of a type with fields
FieldInfosMade ==
    pc \in {"handle_fields", "handle_static_const", "size_padding", "done"}

\* C12 (as stated): a field whose type is deny-listed is not lost: make_fields
\* keeps a field for it, in reference types as well as in value and enum types.
C12_Original ==
    FieldInfosMade =>
        \A i \in DOMAIN t.fields :
            t.fields[i].denied =>
                \E j \in DOMAIN fields : fields[j].cpp_field.name = t.fields[i].name

----------------------------------------------------------------------------
(* C13 *)

TemplateNames(ty) ==
    IF ty.cpp_template = <<>> THEN {}
    ELSE {ty.cpp_template[1][n] : n \in DOMAIN ty.cpp_template[1]}

\* the i-th call resolved a Var or Mvar that has no concrete argument in scope
NoArgumentInScope(i) ==
    LET typ == Types[resolved[i].typ]
        param == GenericParameters[typ.data]
        args == cpp_type.generic_instantiations_args_types
    IN  \/ /\ typ.ty = "Var"
           /\ (args = <<>> \/ param.num >= Len(args[1]))
        \/ /\ typ.ty = "Mvar"
           /\ param.owner_method \notin DOMAIN cpp_type.method_generic_instantiation_map

\* C13 (as stated): resolving a Var or Mvar generic parameter never returns a name
\* when no concrete argument for it is in scope and the resolving type is not an
\* unspecialized template declaring a parameter of that name.
C13_Original ==
    Resolving =>
        \A i \in DOMAIN resolved :
            (/\ Types[resolved[i].typ].ty \in {"Var", "Mvar"}
             /\ NoArgumentInScope(i)
             /\ GenericParameters[Types[resolved[i].typ].data].name
                    \notin TemplateNames(cpp_type))
                => resolved[i].name = Panic

----------------------------------------------------------------------------
(* C14 *)

\* C14 (as stated): a layout step that needs the type's size never returns
\* normally on a type without size info; so create_size_padding has not
\* returned when the type has none.
C14_Original == pc = "done" => size_info # <<>>

----------------------------------------------------------------------------
(* cs_type.rs: make_cs_type *)

\* what a function returned: None, Some(value), or a panic
ReturnedNone == [kind |-> "None", value |-> <<>>]
ReturnedSome(v) == [kind |-> "Some", value |-> <<v>>]
ReturnedPanic == [kind |-> "panic", value |-> <<>>]

\* the CsType built for the definition td under the tag
NewCsType(td, tag, generic_inst_types) ==
    [self_tag |-> tag,
     nested |-> FALSE,
     members |-> <<>>,
     is_value_type |-> td.is_value_type,
     is_enum_type |-> td.is_enum_type,
     is_interface |-> td.is_interface,
     requirements |-> EmptyRequirements,
     parent |-> <<>>,
     generic_instantiations_args_types |-> generic_inst_types,
     method_generic_instantiation_map |-> <<>>]

\* a make_cs_type that skips System.Object like every other type without parent
make_cs_type_NoRoot(td, tag, generic_inst_types) ==
    IF td.blacklisted THEN ReturnedNone
    ELSE IF td.parent_index = U32Max
    THEN IF ~td.is_interface THEN ReturnedNone
         ELSE ReturnedSome(NewCsType(td, tag, generic_inst_types))
    ELSE IF td.parent_index \notin DOMAIN Types THEN ReturnedPanic
    ELSE ReturnedSome(NewCsType(td, tag, generic_inst_types))

make_cs_type(td, tag, generic_inst_types) ==
    IF td.blacklisted THEN ReturnedNone
    ELSE IF td.parent_index = U32Max
    THEN IF ~td.is_interface /\ td.full_name # "System.Object" THEN ReturnedNone
         ELSE ReturnedSome(NewCsType(td, tag, generic_inst_types))
    ELSE IF td.parent_index \notin DOMAIN Types THEN ReturnedPanic
    ELSE ReturnedSome(NewCsType(td, tag, generic_inst_types))

----------------------------------------------------------------------------
(* cs_type.rs: make_parents *)

\* CsTypeTag::from_type_data: the tag of the type a raw type's data names
from_type_data(typ) ==
    IF typ.ty = "Genericinst"
    THEN InstTag(Types[GenericClasses[typ.data].type_index].data,
                 GenericClasses[typ.data].types)
    ELSE TdiTag(typ.data)

\* the assert of make_parents: it records a parent that is not a class, an
\* object or a generic instantiation
ParentAssertFails(td, parent_index) ==
    /\ parent_index # U32Max
    /\ ~td.is_value_type \/ td.is_enum_type
    /\ Types[parent_index].ty \notin {"Class", "Genericinst", "Object"}

\* make_parents: the parent's tag, not recorded for a struct
make_parents(self, td, parent_index) ==
    IF parent_index = U32Max THEN self
    ELSE
    LET parent_type == Types[parent_index]
        parent_ty == from_type_data(parent_type)
    IN  IF ~td.is_value_type \/ td.is_enum_type
        THEN [self EXCEPT !.parent = <<parent_ty>>]
        ELSE self

----------------------------------------------------------------------------
(* Inputs of make_cs_type *)

\* no parent, a class, a generic instantiation, an index outside the type table
ParentIndexes == {U32Max, 1, 12, 99}
FullNames == {"System.Object", "System.ValueType", "NS.Foo", "NS.IFoo"}

\* the (tag, generic_inst_types) pairs a type is made under
MakeTags == {<<TdiTag(1), <<>> >>, <<InstTag(1, <<2>>), << <<2>> >> >>,
             <<InstTag(1, <<3>>), << <<3>> >> >>}

MakeCandidates ==
    {[full_name |-> n, blacklisted |-> b, parent_index |-> p, is_interface |-> i,
      is_value_type |-> k[1], is_enum_type |-> k[2]] :
        n \in FullNames, b \in BOOLEAN, p \in ParentIndexes, i \in BOOLEAN,
        k \in TypeKinds}

InitMake ==
    /\ pc = "make_cs_type"
    /\ instance_fields = <<>>
    /\ unionized = <<>>
    /\ t = NoType
    /\ fields = <<>>
    /\ members = <<>>
    /\ size_info = <<>>
    /\ packing = None
    /\ feature = "il2cpp_v31"
    /\ ResolveIdle
    /\ \E td \in MakeCandidates, tg \in MakeTags :
          arguments = [t |-> td, tag |-> tg[1], generic_inst_types |-> tg[2]]
    /\ returned = <<>>

MakeCsType ==
    /\ pc = "make_cs_type"
    /\ returned' = <<make_cs_type(arguments.t, arguments.tag, arguments.generic_inst_types)>>
    /\ pc' = "made"
    /\ UNCHANGED <<arguments, unionVars, typeVars, resolveVars>>

\* fill_from_il2cpp's make_parents on the type make_cs_type returned
MakeParents ==
    /\ pc = "made"
    /\ returned[1].kind = "Some"
    /\ returned' =
          IF ParentAssertFails(arguments.t, arguments.t.parent_index)
          THEN <<ReturnedPanic>>
          ELSE <<ReturnedSome(make_parents(returned[1].value[1], arguments.t,
                                           arguments.t.parent_index))>>
    /\ pc' = "parents_made"
    /\ UNCHANGED <<arguments, unionVars, typeVars, resolveVars>>

NextMake == MakeCsType \/ MakeParents

SpecMake == InitMake /\ [][NextMake]_vars

----------------------------------------------------------------------------
(* C15 *)

\* the definition is excluded from generation
Excluded(td) ==
    \/ td.blacklisted
    \/ (td.parent_index = U32Max /\ ~td.is_interface /\ td.full_name # "System.Object")

\* C15: make_cs_type returns no model exactly when the type definition is
\* deny-listed, or has no parent index and is neither an interface nor
\* System.Object; every other type whose parent index resolves in the type table
\* (or that has none) gets a model carrying the given tag.
C15_MakeCsType ==
    pc = "made" =>
        /\ (returned[1].kind = "None") <=> Excluded(arguments.t)
        /\ (~Excluded(arguments.t)
            /\ arguments.t.parent_index \in DOMAIN Types \cup {U32Max})
              => /\ returned[1].kind = "Some"
                 /\ returned[1].value[1].self_tag = arguments.tag

\* System.Object, without a parent and not an interface, made under its tag
C15_Witness ==
    /\ pc = "made"
    /\ arguments.t.full_name = "System.Object"
    /\ arguments.t.parent_index = U32Max
    /\ ~arguments.t.is_interface
    /\ ~arguments.t.blacklisted
    /\ returned[1].kind = "Some"

----------------------------------------------------------------------------
(* cpp_type.rs: parse_generic_arg *)

CORDL_REFERENCE_TYPE_CONSTRAINT == <<"::il2cpp_utils::il2cpp_reference_type">>

\* format!("{CORDL_NUM_ENUM_TYPE_CONSTRAINT}<{inner_enum_type_cpp}>")
NumEnumConstraint(inner_enum_type_cpp) ==
    <<"::cordl_internals::is_or_is_backed_by", "<">> \o inner_enum_type_cpp \o <<">">>

\* <<>> for None, <<ty>> for Some(ty)
enum_system_type_discriminator(typ) ==
    IF typ.ty \notin {"Class", "Valuetype"} THEN <<>>
    ELSE LET td == TypeDefinitions[typ.data] IN
         IF td.namespace # "System" THEN <<>>
         ELSE CASE td.name = "SByteEnum"  -> <<"I1">>
                [] td.name = "Int16Enum"  -> <<"I2">>
                [] td.name = "Int32Enum"  -> <<"I4">>
                [] td.name = "Int64Enum"  -> <<"I8">>
                [] td.name = "ByteEnum"   -> <<"U1">>
                [] td.name = "UInt16Enum" -> <<"U2">>
                [] td.name = "UInt32Enum" -> <<"U4">>
                [] td.name = "UInt64Enum" -> <<"U8">>
                [] OTHER -> <<>>

Parsed(name, self, template_args) ==
    [name |-> name, cpp_type |-> self, template_args |-> template_args]

\* a mangled name that carries the same number whatever was appended before
MangledGenName_Unnumbered(inner_gen_name, template_args) ==
    inner_gen_name \o "_cordlgen_" \o ToString(0)

\* format!("{inner_gen_name}_cordlgen_{}", template_args.len())
MangledGenName(inner_gen_name, template_args) ==
    inner_gen_name \o "_cordlgen_" \o ToString(Len(template_args))

RECURSIVE parse_generic_arg(_, _, _, _)
RECURSIVE ParseInnerGenericParams(_, _, _, _, _)

\* the arguments of a generic class, parsed left to right
ParseInnerGenericParams(types, gen_class_td, self, template_args, formatted) ==
    IF Len(formatted) = Len(types) THEN Parsed(formatted, self, template_args)
    ELSE
    LET param_idx == Len(formatted)
        inner_gen_name == gen_class_td.template[1][param_idx + 1]
        mangled_gen_name == MangledGenName(inner_gen_name, template_args)
        r == parse_generic_arg(Types[types[param_idx + 1]], mangled_gen_name,
                               self, template_args)
    IN  ParseInnerGenericParams(types, gen_class_td, r.cpp_type, r.template_args,
                                Append(formatted, combine_all(r.name)))

\* a parse_generic_arg that widens every argument, value types included
parse_generic_arg_AlwaysWiden(typ, gen_name, self, template_args) ==
    Parsed(NameOf(gen_name), self,
           Append(template_args, <<CORDL_REFERENCE_TYPE_CONSTRAINT, gen_name>>))

parse_generic_arg(typ, gen_name, self, template_args) ==
    IF ~typ.valuetype
    THEN Parsed(NameOf(gen_name), self,
                Append(template_args, <<CORDL_REFERENCE_TYPE_CONSTRAINT, gen_name>>))
    ELSE
    LET discriminator == enum_system_type_discriminator(typ) IN
    IF discriminator # <<>>
    THEN LET inner_enum_type == Il2CppType(discriminator[1], None, TRUE)
             inner == cppify_name_il2cpp(self, inner_enum_type, 0, "GenericArg")
         IN  Parsed(NameOf(gen_name), inner.cpp_type,
                    Append(template_args,
                           <<NumEnumConstraint(combine_all(inner.name)), gen_name>>))
    ELSE
    LET inner_type == cppify_name_il2cpp(self, typ, 0, "TypeName") IN
    IF typ.ty = "Genericinst"
    THEN LET gen_class == GenericClasses[typ.data]
             gen_class_ty == Types[gen_class.type_index]
             gen_class_td == TypeDefinitions[gen_class_ty.data]
             non_generic_inner_type ==
                 cppify_name_il2cpp(inner_type.cpp_type, gen_class_ty, 0, "GenericArg")
             inner_generic_params ==
                 ParseInnerGenericParams(gen_class.types, gen_class_td,
                                         non_generic_inner_type.cpp_type,
                                         template_args, <<>>)
         IN  Parsed([non_generic_inner_type.name EXCEPT
                        !.generics = <<inner_generic_params.name>>],
                    inner_generic_params.cpp_type, inner_generic_params.template_args)
    ELSE Parsed(inner_type.name, inner_type.cpp_type, template_args)

----------------------------------------------------------------------------
(* Inputs of parse_generic_arg: two arguments for the same generic slot *)

WidenedTypes == {2, 3, 4, 6, 7, 9, 10, 12, 21, 24, 25, 26, 27, 28, 29, 30, 31}
GenericSlotNames == {"T", "TValue"}

InitWiden ==
    /\ pc = "parse_generic_arg"
    /\ instance_fields = <<>>
    /\ unionized = <<>>
    /\ t = NoType
    /\ fields = <<>>
    /\ members = <<>>
    /\ size_info = <<>>
    /\ packing = None
    /\ feature = "il2cpp_v31"
    /\ ResolveIdle
    /\ \E a \in WidenedTypes, b \in WidenedTypes, n \in GenericSlotNames,
          ty \in {FooTemplate, FooInstantiation(2)} :
          arguments = [first |-> a, second |-> b, gen_name |-> n, cpp_type |-> ty]
    /\ returned = <<>>

\* the two arguments parsed, each by the same type with no template argument yet
ParseGenericArg ==
    /\ pc = "parse_generic_arg"
    /\ returned' =
          <<parse_generic_arg(Types[arguments.first], arguments.gen_name,
                              arguments.cpp_type, <<>>),
            parse_generic_arg(Types[arguments.second], arguments.gen_name,
                              arguments.cpp_type, <<>>)>>
    /\ pc' = "parsed"
    /\ UNCHANGED <<arguments, unionVars, typeVars, resolveVars>>

NextWiden == ParseGenericArg

SpecWiden == InitWiden /\ [][NextWiden]_vars

----------------------------------------------------------------------------
(* C16 *)

Parsed2 == pc = "parsed"

IntegerBackedEnum(typ) == enum_system_type_discriminator(Types[typ]) # <<>>

BothReference == ~Types[arguments.first].valuetype /\ ~Types[arguments.second].valuetype

\* two different value-typed arguments, neither an integer-backed enum
BothValue ==
    /\ arguments.first # arguments.second
    /\ Types[arguments.first].valuetype /\ Types[arguments.second].valuetype
    /\ ~IntegerBackedEnum(arguments.first) /\ ~IntegerBackedEnum(arguments.second)

DenyListed(typ) ==
    Types[typ].ty \in {"Class", "Valuetype"} /\ Types[typ].data \in blacklisted_types

\* two arguments that are deny-listed value types of the same kind
SameDeniedKind(a, b) ==
    /\ DenyListed(a) /\ DenyListed(b)
    /\ TypeDefinitions[Types[a].data].enum_type = TypeDefinitions[Types[b].data].enum_type

\* two instantiations of one generic definition whose arguments are, slot by
\* slot, equal or both reference-typed
SameWidenedInstantiation(a, b) ==
    /\ Types[a].ty = "Genericinst" /\ Types[b].ty = "Genericinst"
    /\ LET ga == GenericClasses[Types[a].data]
           gb == GenericClasses[Types[b].data]
       IN  /\ ga.type_index = gb.type_index
           /\ \A k \in DOMAIN ga.types :
                 \/ ga.types[k] = gb.types[k]
                 \/ (~Types[ga.types[k]].valuetype /\ ~Types[gb.types[k]].valuetype)

ReferenceWidened(r) ==
    /\ r.name = NameOf(arguments.gen_name)
    /\ r.template_args = <<<<CORDL_REFERENCE_TYPE_CONSTRAINT, arguments.gen_name>>>>

----------------------------------------------------------------------------
(* cs_type.rs: fill_from_il2cpp, on the types of the collection *)

\* the definitions that are filled, with their parent's type index
FilledDefinitions == {2, 3}
ParentTypeIndex == 20

\* the field table of a filled definition
FieldTableOf(tdi) ==
    IF TypeDefinitions[tdi].value_type
    THEN << FieldDef(<<"A">>, FALSE, FALSE, 16, 4, FALSE),
            FieldDef(<<"B">>, FALSE, FALSE, 20, 4, FALSE) >>
    ELSE << FieldDef(<<"A">>, FALSE, FALSE, 16, 8, FALSE),
            FieldDef(<<"B">>, TRUE, FALSE, 0, 4, FALSE) >>

DefinitionToFill(tdi) ==
    TypeDefinition(<<TypeDefinitions[tdi].value_type, TypeDefinitions[tdi].enum_type>>,
                   FALSE, FieldTableOf(tdi), <<>>, 32)

\* make_fields on the type itself
make_fields(self, td) ==
    IF Len(td.fields) = 0 THEN self
    ELSE
    LET fs == MakeFieldInfos(td)
        handled == IF td.is_value_type \/ td.is_enum_type
                   THEN handle_valuetype_fields(self.members, fs, td)
                   ELSE handle_referencetype_fields(self.members, fs, td)
    IN  [self EXCEPT !.members =
            handle_const_fields(handle_static_fields(handled, fs, td), fs, td)]

\* a fill that also turns the filled type's name into a value name
fill_from_il2cpp_Renaming(self) ==
    [self EXCEPT !.filled = TRUE, !.cpp_name_components.is_pointer = FALSE,
                 !.cpp_name_components.name = "Filled"]

fill_from_il2cpp(self) ==
    LET td == DefinitionToFill(self.self_tag.tdi)
    IN  [make_fields(make_parents(self, td, ParentTypeIndex), td) EXCEPT !.filled = TRUE]

----------------------------------------------------------------------------
(* Filling the types of the collection in any order, while a consumer resolves
   references to them *)

\* Other, Val, Other[], Val*, Foo<Other>, Foo<Val>, List<Val>
ReferenceTypes == {2, 3, 10, 11, 12, 13, 14}

FilledSet == {d \in DOMAIN collection : collection[d].filled}

InitOrder ==
    /\ pc = "fill"
    /\ instance_fields = <<>>
    /\ unionized = <<>>
    /\ t = NoType
    /\ fields = <<>>
    /\ members = <<>>
    /\ size_info = <<>>
    /\ packing = None
    /\ feature = "il2cpp_v31"
    /\ cpp_type \in ResolvingTypes
    /\ resolved = <<>>
    /\ collection = InitialCollection
    /\ CallIdle

FillFromIl2cpp ==
    /\ pc = "fill"
    /\ \E tdi \in FilledDefinitions :
          /\ ~collection[tdi].filled
          /\ collection' = [collection EXCEPT ![tdi] = fill_from_il2cpp(@)]
    /\ UNCHANGED <<pc, cpp_type, resolved, unionVars, typeVars, callVars>>

ResolveReference ==
    /\ pc = "fill"
    /\ Len(resolved) < MaxCalls
    /\ \E typ \in ReferenceTypes, include_depth \in 0..MaxIncludeDepth :
          LET res == cppify_name_il2cpp(cpp_type, Types[typ], include_depth, "Field")
          IN  /\ cpp_type' = res.cpp_type
              /\ resolved' = Append(resolved,
                    [typ |-> typ, include_depth |-> include_depth,
                     typ_usage |-> "Field", name |-> res.name,
                     requirements |-> res.cpp_type.requirements,
                     filled |-> FilledSet])
    /\ UNCHANGED <<pc, collection, unionVars, typeVars, callVars>>

NextOrder == FillFromIl2cpp \/ ResolveReference

SpecOrder == InitOrder /\ [][NextOrder]_vars

----------------------------------------------------------------------------
(* C17 *)

Filling == pc = "fill"

----------------------------------------------------------------------------
(* C18 *)

\* Two fields whose byte ranges [offset, offset + size) share a byte.
FieldsOverlap(f, g) ==
    /\ unwrap_or_max(f.offset) < AddU32(unwrap_or_max(g.offset), g.size)
    /\ unwrap_or_max(g.offset) < AddU32(unwrap_or_max(f.offset), f.size)

\* The fields a member declares: itself, or the fields of its struct.
MemberFields(m) ==
    IF m.kind = "FieldDecl" THEN {m.field}
    ELSE IF m.kind = "NestedStruct"
         THEN {d.field : d \in Range(m.declarations)}
         ELSE {}

\* f and g are declared by two different branches of one emitted union.
InDifferentBranches(f, g) ==
    \E i \in 1..Len(unionized) :
        /\ unionized[i].kind = "NestedUnion"
        /\ \E a, b \in 1..Len(unionized[i].declarations) :
              /\ a # b
              /\ f.cpp_field \in MemberFields(unionized[i].declarations[a])
              /\ g.cpp_field \in MemberFields(unionized[i].declarations[b])

\* C18: in the members make_or_unionize_fields returns, any two fields whose
\* byte ranges overlap are declared by two different branches of one union;
\* none of them is left a plain sibling of the other.
C18_Original ==
    pc = "unionized" =>
        \A i, j \in 1..Len(instance_fields) :
            (i # j /\ FieldsOverlap(instance_fields[i], instance_fields[j]))
                => InDifferentBranches(instance_fields[i], instance_fields[j])

----------------------------------------------------------------------------
(* C19 *)

\* The smallest multiple of `alignment` that is at least `size`; `size` itself
\* for alignment 0.
SmallestMultipleAtLeast(size, alignment) ==
    IF alignment = 0 THEN size
    ELSE CHOOSE m \in size..(size + alignment) :
            /\ m % alignment = 0
            /\ \A k \in size..(m - 1) : k % alignment # 0

\* create_size_padding went past its checks of the metadata size and of the
\* size info, in a build where alignment is applied.
C19_Aligning ==
    /\ pc = "done"
    /\ feature = "il2cpp_v29"
    /\ t.metadata_instance_size = 32
    /\ size_info # <<>>

\* C19: under il2cpp_v29 the aligned calculated size is the smallest multiple of
\* the natural alignment that is at least the calculated instance size (the
\* calculated size itself when it is such a multiple or the alignment is 0), and
\* the padding is skipped at the size comparison exactly when that multiple
\* equals the reported instance size: an equal multiple leaves no padding, and a
\* different one leaves a padding whenever the packed gap is not 0.
C19_Original ==
    C19_Aligning =>
        LET si == size_info[1]
            aligned == SmallestMultipleAtLeast(si.calculated_instance_size,
                                               si.natural_alignment)
            gap == AbsDiff(si.instance_size, si.calculated_instance_size)
            p == IF packing = None THEN closest_packing(si.calculated_instance_size)
                 ELSE packing
            packed == IF p = 0 THEN gap ELSE AndNot(gap, p - 1)
        IN /\ aligned_calculated_size(si, feature) = aligned
           /\ aligned = si.instance_size => Len(SizePaddings) = 0
           /\ (aligned # si.instance_size /\ packed # 0) => Len(SizePaddings) = 1

----------------------------------------------------------------------------
(* C20 *)

\* create_size_padding went past its checks of the metadata size and of the
\* size info, for a type that has a packing.
C20_Packed ==
    /\ pc = "done"
    /\ t.metadata_instance_size = 32
    /\ size_info # <<>>
    /\ packing # None

\* C20: the padding length is the gap between the reported instance size and
\* the aligned calculated size, rounded down to a multiple of the type's packing
\* mapped through the table 0->0, 1->1, 2->2, 3->4, 4->4, otherwise 8 (a mapped
\* packing of 0 rounds nothing); a rounded length of 0 emits no padding field,
\* any other length emits one padding field of that length.
C20_Original ==
    C20_Packed =>
        LET si == size_info[1]
            gap == AbsDiff(si.instance_size, aligned_calculated_size(si, feature))
            mapped == closest_packing(packing)
            rounded == IF mapped = 0 THEN gap ELSE AndNot(gap, mapped - 1)
        IN IF rounded = 0
           THEN Len(SizePaddings) = 0
           ELSE Len(SizePaddings) = 1 /\ SizePaddings[1].field.array_len = rounded

----------------------------------------------------------------------------
(* C21 *)

\* the type definitions the raw type Types[typ] refers to when `self` resolves it:
\* itself, or those reached through arrays, pointers, the method's generic
\* arguments and the arguments of generic instantiations
RECURSIVE ReferentsOf(_, _)
ReferentsOf(self, typ) ==
    LET ty == Types[typ] IN
    CASE ty.ty \in {"Class", "Valuetype"} -> {ty.data}
      [] ty.ty \in {"Szarray", "Ptr"} -> ReferentsOf(self, ty.data)
      [] ty.ty = "Mvar" ->
           LET generic_param == GenericParameters[ty.data]
               map == self.method_generic_instantiation_map
           IN  IF generic_param.owner_method \in DOMAIN map
               THEN ReferentsOf(self, map[generic_param.owner_method][generic_param.num + 1])
               ELSE {}
      [] ty.ty = "Genericinst" ->
           LET gc == GenericClasses[ty.data]
           IN  {Types[gc.type_index].data}
                 \cup UNION {ReferentsOf(self, gc.types[a]) : a \in DOMAIN gc.types}
      [] OTHER -> {}

\* the referents of a raw type that lie outside the emission unit of `self`
\* (deny-listed definitions have no emission unit)
OutsideReferents(self, typ) ==
    {tdi \in ReferentsOf(self, typ) :
        /\ tdi \notin blacklisted_types
        /\ get_context_root_tag(TdiTag(tdi)) # get_context_root_tag(self.self_tag)}

\* the includes of an emission unit: its definitions and its implementations
ContextIncludes ==
    {new_context_typedef(get_context(TdiTag(tdi))) : tdi \in DOMAIN collection}
        \cup {new_context_typeimpl(get_context(TdiTag(tdi))) : tdi \in DOMAIN collection}

\* C21: a resolution at include_depth 0 adds no dependency tag, no definition
\* include of an emission unit and no implementation include, whatever the raw
\* type is; every referent outside the resolving type's emission unit, also one
\* reached through an array, a pointer, a method generic argument or a nested
\* generic instantiation, is forward declared.
C21_DepthZero ==
    \A i \in DOMAIN resolved :
        resolved[i].include_depth = 0 =>
            LET before == RequirementsBefore(i)
                after == resolved[i].requirements
            IN  /\ after.depending_types = before.depending_types
                /\ after.required_impl_includes = before.required_impl_includes
                /\ (after.required_def_includes \ before.required_def_includes)
                      \cap ContextIncludes = {}
                /\ \A tdi \in OutsideReferents(cpp_type, resolved[i].typ) :
                      ForwardDeclared(after, tdi)

\* List<Foo<Other>> resolved at depth 0 by a type that already recorded includes:
\* the forward declares of its nested referents were added
C21_Witness ==
    \E i \in DOMAIN resolved :
        /\ resolved[i].include_depth = 0
        /\ resolved[i].typ = 15
        /\ RequirementsBefore(i).required_impl_includes # {}
        /\ Cardinality(resolved[i].requirements.forward_declares
                          \ RequirementsBefore(i).forward_declares) >= 2

----------------------------------------------------------------------------
(* C22 *)

\* the generic arguments of the Genericinst raw type Types[typ]
GenericArguments(typ) ==
    {GenericClasses[Types[typ].data].types[a] :
        a \in DOMAIN GenericClasses[Types[typ].data].types}

\* a generic argument that names a type definition outside the emission unit
\* of `self`
OutsideArgument(self, arg) ==
    /\ Types[arg].ty \in {"Class", "Valuetype"}
    /\ Types[arg].data \in OutsideReferents(self, arg)

\* C22 as stated: resolving a generic instantiation at include_depth >= 1 records
\* every value-typed generic argument outside the emission unit with its
\* definition include and its dependency tag, and records no definition include
\* for a reference-typed argument.
C22_Original ==
    \A i \in DOMAIN resolved :
        (Types[resolved[i].typ].ty = "Genericinst" /\ resolved[i].include_depth >= 1) =>
            \A arg \in GenericArguments(resolved[i].typ) :
                OutsideArgument(cpp_type, arg) =>
                    IF Types[arg].valuetype
                    THEN /\ DefIncluded(resolved[i].requirements, Types[arg].data)
                         /\ TdiTag(Types[arg].data)
                               \in resolved[i].requirements.depending_types
                    ELSE new_context_typedef(get_context(TdiTag(Types[arg].data)))
                            \notin (resolved[i].requirements.required_def_includes
                                      \ RequirementsBefore(i).required_def_includes)

----------------------------------------------------------------------------
(* C23 *)

ParentsMade == pc = "parents_made" /\ returned[1].kind = "Some"

\* C23 as stated: after make_parents the parent is unset for a value type and
\* for an enum type, is the tag of the metadata parent for every other type
\* that has a parent index, and stays unset for a type without a parent index.
C23_Original ==
    ParentsMade =>
        LET td == arguments.t
            parent == returned[1].value[1].parent
        IN  IF td.is_value_type \/ td.is_enum_type \/ td.parent_index = U32Max
            THEN parent = <<>>
            ELSE parent = <<from_type_data(Types[td.parent_index])>>

----------------------------------------------------------------------------
(* cs_type.rs: make_properties *)

\* a method definition, as far as make_properties reads it
MethodDef(name, is_static, parameter_count) ==
    [name |-> name, is_static |-> is_static, parameter_count |-> parameter_count]

\* a property definition: get and set hold the accessor, <<>> for u32::MAX
PropertyDef(name, get, set) == [name |-> name, get |-> get, set |-> set]

CsPropertyDecl(name, getter, setter, indexable) ==
    [kind |-> "Property", name |-> name, getter |-> getter, setter |-> setter,
     indexable |-> indexable, instance |-> TRUE]

\* p_getter.or(p_setter).unwrap(): the accessor that decides whether the
\* property is skipped
DecidingAccessor(prop) == IF prop.get # <<>> THEN prop.get[1] ELSE prop.set[1]

\* a loop body that skips a property only when every accessor it has is static
make_property_AllStatic(mems, prop) ==
    IF /\ prop.get # <<>> => prop.get[1].is_static
       /\ prop.set # <<>> => prop.set[1].is_static
    THEN mems
    ELSE Append(mems,
            CsPropertyDecl(prop.name,
                IF prop.get = <<>> THEN <<>> ELSE <<prop.get[1].name>>,
                IF prop.set = <<>> THEN <<>> ELSE <<prop.set[1].name>>,
                prop.get # <<>> /\ prop.get[1].parameter_count > 0))

\* one run of the loop body of make_properties
make_property(mems, prop) ==
    IF DecidingAccessor(prop).is_static THEN mems
    ELSE Append(mems,
            CsPropertyDecl(prop.name,
                IF prop.get = <<>> THEN <<>> ELSE <<prop.get[1].name>>,
                IF prop.set = <<>> THEN <<>> ELSE <<prop.set[1].name>>,
                prop.get # <<>> /\ prop.get[1].parameter_count > 0))

RECURSIVE make_properties(_, _)
make_properties(mems, props) ==
    IF props = <<>> THEN mems
    ELSE make_properties(make_property(mems, Head(props)), Tail(props))

----------------------------------------------------------------------------
(* Inputs of make_properties *)

MaxProperties == 2

\* names are sequences of tokens, as the field names are
PropertyNames == << <<"P1">>, <<"P2">>, <<"P3">> >>

\* no accessor, an instance accessor, a static accessor
AccessorKinds == {"none", "instance", "static"}

Accessor(prefix, name, kind) ==
    IF kind = "none" THEN <<>>
    ELSE <<MethodDef(prefix \o name, kind = "static", 0)>>

\* the property tables: every property has a getter, a setter or both
PropertyTables ==
    UNION {{[i \in 1..n |->
                PropertyDef(PropertyNames[i],
                            Accessor(<<"get_">>, PropertyNames[i], ks[i][1]),
                            Accessor(<<"set_">>, PropertyNames[i], ks[i][2]))] :
              ks \in [1..n -> (AccessorKinds \X AccessorKinds) \ {<<"none", "none">>}]} :
           n \in 0..MaxProperties}

\* the members make_fields left: none, or one field
MembersBeforeProperties ==
    {<<>>, <<FieldDecl(CsField(<<"A">>, 16, TRUE))>>}

InitProperties ==
    /\ pc = "make_properties"
    /\ instance_fields = <<>>
    /\ unionized = <<>>
    /\ t = NoType
    /\ fields = <<>>
    /\ members \in MembersBeforeProperties
    /\ size_info = <<>>
    /\ packing = None
    /\ feature = "il2cpp_v31"
    /\ ResolveIdle
    /\ \E props \in PropertyTables :
          arguments = [properties |-> props, members |-> members]
    /\ returned = <<>>

MakeProperties ==
    /\ pc = "make_properties"
    /\ members' = make_properties(members, arguments.properties)
    /\ pc' = "properties_made"
    /\ UNCHANGED <<unionVars, t, fields, size_info, packing, feature, resolveVars,
                   callVars>>

NextProperties == MakeProperties

SpecProperties == InitProperties /\ [][NextProperties]_vars

----------------------------------------------------------------------------
(* C24 *)

PropertiesMade == pc = "properties_made"

\* the properties of the table that satisfy Keep(prop), in metadata order
RECURSIVE KeptProperties(_, _)
KeptProperties(props, static_drops) ==
    IF props = <<>> THEN <<>>
    ELSE (IF Head(props) \in static_drops THEN <<>> ELSE <<Head(props)>>)
            \o KeptProperties(Tail(props), static_drops)

\* the members make_properties added
AddedMembers == SubSeq(members, Len(arguments.members) + 1, Len(members))

\* the added members are one Property per kept property, in metadata order,
\* with the getter and setter names of the accessors that exist
AddedAre(kept) ==
    /\ SubSeq(members, 1, Len(arguments.members)) = arguments.members
    /\ Len(AddedMembers) = Len(kept)
    /\ \A i \in 1..Len(kept) :
          /\ AddedMembers[i].kind = "Property"
          /\ AddedMembers[i].name = kept[i].name
          /\ AddedMembers[i].getter =
                (IF kept[i].get = <<>> THEN <<>> ELSE <<kept[i].get[1].name>>)
          /\ AddedMembers[i].setter =
                (IF kept[i].set = <<>> THEN <<>> ELSE <<kept[i].set[1].name>>)

\* the properties that have one accessor only, a static one
OnlyAccessorStatic ==
    {p \in Range(arguments.properties) :
        \/ p.get = <<>> /\ p.set[1].is_static
        \/ p.set = <<>> /\ p.get[1].is_static}

\* the properties whose getter, or whose setter when they have no getter, is static
DecidingAccessorStatic ==
    {p \in Range(arguments.properties) : DecidingAccessor(p).is_static}

\* C24 as stated: make_properties drops exactly the properties whose only
\* accessor is static, and adds one Property member per kept property, in
\* metadata order, with the names of the accessors that exist, and no other
\* member.
C24_Original ==
    PropertiesMade => AddedAre(KeptProperties(arguments.properties, OnlyAccessorStatic))

\* C24 amended: make_properties drops exactly the properties whose getter is
\* static, or whose setter is static when they have no getter (so also a static
\* property with both accessors), and adds one Property member per kept
\* property, in metadata order, with the names of the accessors that exist, and
\* no other member.
C24_StaticDropped ==
    PropertiesMade => AddedAre(KeptProperties(arguments.properties, DecidingAccessorStatic))

\* a table of an instance property and a static property with both accessors,
\* of which one member was added after the field
C24_Witness ==
    /\ PropertiesMade
    /\ arguments.members # <<>>
    /\ Len(arguments.properties) = 2
    /\ \E p \in Range(arguments.properties) :
          p.get # <<>> /\ p.set # <<>> /\ p.get[1].is_static /\ p.set[1].is_static
    /\ Len(AddedMembers) = 1

----------------------------------------------------------------------------
(* cs_type.rs: add_method_generic_inst, create_method, make_methods *)

\* a method definition, as far as create_method reads it; generic_parameters is
\* <<>> for a method without a generic container
Il2CppMethodDefinition(name, is_static, generic_parameters) ==
    [name |-> name, is_static |-> is_static, generic_parameters |-> generic_parameters]

\* template is <<>> for None, <<names>> for Some(CsGenericTemplate)
CsMethodDecl(name, instance, template) ==
    [kind |-> "MethodDecl", name |-> name, instance |-> instance, template |-> template]

\* the type's per-method generic-argument map with one entry inserted
add_method_generic_inst(self, method_definition_index, inst_types) ==
    [self EXCEPT !.method_generic_instantiation_map =
        [k \in DOMAIN @ \cup {method_definition_index} |->
            IF k = method_definition_index THEN inst_types ELSE @[k]]]

\* a create_method that declares the method for an instantiation request as well
create_method_AlwaysPushing(self, methods, method_index, is_generic_method_inst) ==
    LET method == methods[method_index] IN
    IF method.name = ".cctor" THEN self
    ELSE [self EXCEPT !.members =
            Append(@, CsMethodDecl(method.name, ~method.is_static, <<>>))]

create_method(self, methods, method_index, is_generic_method_inst) ==
    LET method == methods[method_index]
        template == IF method.generic_parameters = <<>> THEN <<>>
                    ELSE IF is_generic_method_inst THEN << <<>> >>
                    ELSE <<method.generic_parameters>>
        method_decl == CsMethodDecl(method.name, ~method.is_static, template)
    IN  IF method.name = ".cctor" THEN self
        ELSE IF ~is_generic_method_inst
        THEN [self EXCEPT !.members = Append(@, method_decl)]
        ELSE self

RECURSIVE MakeMethodsFrom(_, _, _)
MakeMethodsFrom(self, methods, i) ==
    IF i > Len(methods) THEN self
    ELSE MakeMethodsFrom(create_method(self, methods, i, FALSE), methods, i + 1)

make_methods(self, methods) == MakeMethodsFrom(self, methods, 1)

----------------------------------------------------------------------------
(* Method declarations and generic-instantiation requests on one type *)

MaxMethods == 3
MaxRequests == 2

\* the static type initializer, a plain method, a static method, a generic method
MethodKinds == {"cctor", "plain", "static", "generic"}

MethodNames == <<"M1", "M2", "M3", "M4">>

MethodOfKind(kind, i) ==
    CASE kind = "cctor" -> Il2CppMethodDefinition(".cctor", TRUE, <<>>)
      [] kind = "plain" -> Il2CppMethodDefinition(MethodNames[i], FALSE, <<>>)
      [] kind = "static" -> Il2CppMethodDefinition(MethodNames[i], TRUE, <<>>)
      [] kind = "generic" -> Il2CppMethodDefinition(MethodNames[i], FALSE, <<"TM">>)

\* the method tables: at most one static type initializer
MethodTables ==
    UNION {{[i \in 1..n |-> MethodOfKind(ks[i], i)] :
              ks \in {k \in [1..n -> MethodKinds] :
                        Cardinality({i \in 1..n : k[i] = "cctor"}) <= 1}} :
           n \in 0..MaxMethods}

\* the generic_insts a method spec may name: <Other>, <Val>
MethodInsts == {<<2>>, <<3>>}

GenericMethods(methods) ==
    {i \in DOMAIN methods : methods[i].generic_parameters # <<>>}

InitMethods ==
    /\ pc = "make_methods"
    /\ instance_fields = <<>>
    /\ unionized = <<>>
    /\ t = NoType
    /\ fields = <<>>
    /\ members = <<>>
    /\ size_info = <<>>
    /\ packing = None
    /\ feature = "il2cpp_v31"
    /\ cpp_type = NewCsType([is_value_type |-> FALSE, is_enum_type |-> FALSE,
                             is_interface |-> FALSE], TdiTag(2), <<>>)
    /\ resolved = <<>>
    /\ collection = InitialCollection
    /\ \E methods \in MethodTables : arguments = [methods |-> methods]
    /\ returned = <<>>

\* fill_from_il2cpp's make_methods: the declarations of all methods
MakeMethods ==
    /\ pc = "make_methods"
    /\ cpp_type' = make_methods(cpp_type, arguments.methods)
    /\ pc' = "methods_made"
    /\ UNCHANGED <<resolved, collection, unionVars, typeVars, callVars>>

\* a generic-instantiation request: the arguments recorded for the method
AddMethodGenericInst ==
    /\ Len(resolved) < MaxRequests
    /\ \E m \in GenericMethods(arguments.methods), inst \in MethodInsts :
          /\ cpp_type' = add_method_generic_inst(cpp_type, m, inst)
          /\ resolved' = Append(resolved,
                [request |-> "add_method_generic_inst", method |-> m,
                 before |-> cpp_type, after |-> cpp_type'])
    /\ UNCHANGED <<pc, collection, unionVars, typeVars, callVars>>

\* a generic-instantiation request: create_method for the instantiation
CreateMethodInst ==
    /\ Len(resolved) < MaxRequests
    /\ \E m \in GenericMethods(arguments.methods) :
          /\ cpp_type' = create_method(cpp_type, arguments.methods, m, TRUE)
          /\ resolved' = Append(resolved,
                [request |-> "create_method", method |-> m,
                 before |-> cpp_type, after |-> cpp_type'])
    /\ UNCHANGED <<pc, collection, unionVars, typeVars, callVars>>

NextMethods == MakeMethods \/ AddMethodGenericInst \/ CreateMethodInst

SpecMethods == InitMethods /\ [][NextMethods]_vars

----------------------------------------------------------------------------
(* C25 *)

\* the names of the declared methods other than the static type initializer,
\* in declaration order
RECURSIVE DeclaredNames(_)
DeclaredNames(methods) ==
    IF methods = <<>> THEN <<>>
    ELSE (IF Head(methods).name = ".cctor" THEN <<>> ELSE <<Head(methods).name>>)
            \o DeclaredNames(Tail(methods))

\* C25: an instantiation request adds no member (add_method_generic_inst changes
\* the per-method generic-argument map only, create_method for an instantiation
\* changes nothing), so that before make_methods the type has no member and
\* after it, whatever requests came before or after, its members are exactly one
\* method member per declared method other than .cctor, in declaration order.
C25_NoMemberPerRequest ==
    (pc \in {"make_methods", "methods_made"}) =>
        /\ \A i \in DOMAIN resolved :
              /\ resolved[i].after.members = resolved[i].before.members
              /\ resolved[i].request = "add_method_generic_inst" =>
                    resolved[i].after =
                        [resolved[i].before EXCEPT !.method_generic_instantiation_map =
                            resolved[i].after.method_generic_instantiation_map]
              /\ resolved[i].request = "create_method" =>
                    resolved[i].after = resolved[i].before
        /\ pc = "make_methods" => cpp_type.members = <<>>
        /\ pc = "methods_made" =>
              /\ \A i \in DOMAIN cpp_type.members : cpp_type.members[i].kind = "MethodDecl"
              /\ [i \in DOMAIN cpp_type.members |-> cpp_type.members[i].name]
                    = DeclaredNames(arguments.methods)

\* a table with .cctor and a generic method, an instantiation recorded before the
\* declarations and a create_method for it after them
C25_Witness ==
    /\ pc = "methods_made"
    /\ Len(arguments.methods) = 3
    /\ \E i \in DOMAIN arguments.methods : arguments.methods[i].name = ".cctor"
    /\ Len(cpp_type.members) = 2
    /\ Len(resolved) = 2
    /\ resolved[1].request = "add_method_generic_inst"
    /\ resolved[1].before.members = <<>>
    /\ resolved[2].request = "create_method"
    /\ resolved[2].before.members # <<>>
    /\ resolved[2].method \in DOMAIN cpp_type.method_generic_instantiation_map

----------------------------------------------------------------------------
(* One widening pass: parse_generic_arg on each top-level generic argument of a
   type, all sharing one template_args list *)

MaxTopLevelArgs == 2

\* the parameter names of the type whose arguments are widened
TopLevelNames == <<"TKey", "TValue", "TRest">>

\* Other, Val, Box<Other>, Box<List>, Box<Val>, System.Int32Enum, U4,
\* Box<Box<Other>>
PassTypes == {2, 3, 24, 25, 26, 27, 31, 32}

\* the lists of top-level generic arguments a pass is run on
PassTypeLists == UNION {[1..n -> PassTypes] : n \in 1..MaxTopLevelArgs}

\* the type and its template_args as the arguments already parsed have left them
PassCppType ==
    IF returned = <<>> THEN arguments.cpp_type ELSE returned[Len(returned)].cpp_type

PassTemplateArgs ==
    IF returned = <<>> THEN <<>> ELSE returned[Len(returned)].template_args

InitPass ==
    /\ pc = "widen"
    /\ instance_fields = <<>>
    /\ unionized = <<>>
    /\ t = NoType
    /\ fields = <<>>
    /\ members = <<>>
    /\ size_info = <<>>
    /\ packing = None
    /\ feature = "il2cpp_v31"
    /\ ResolveIdle
    /\ \E types \in PassTypeLists, ty \in {FooTemplate, FooInstantiation(2)} :
          arguments = [types |-> types, cpp_type |-> ty]
    /\ returned = <<>>

\* the next top-level argument parsed; the pass ends with the last one
Widen ==
    /\ pc = "widen"
    /\ returned' =
          Append(returned,
                 parse_generic_arg(Types[arguments.types[Len(returned) + 1]],
                                   TopLevelNames[Len(returned) + 1],
                                   PassCppType, PassTemplateArgs))
    /\ pc' = IF Len(returned) + 1 = Len(arguments.types) THEN "widened" ELSE "widen"
    /\ UNCHANGED <<arguments, unionVars, typeVars, resolveVars>>

NextPass == Widen

SpecPass == InitPass /\ [][NextPass]_vars

----------------------------------------------------------------------------
(* C26 *)

Widened == pc = "widened"

\* the placeholder names of the pass, in the order they were appended
Placeholders == [i \in DOMAIN PassTemplateArgs |-> PassTemplateArgs[i][2]]

\* the parameter names a mangled name may start with
InnerGenericNames ==
    UNION {{td.template[1][i] : i \in DOMAIN td.template[1]} :
              td \in {d \in Range(TypeDefinitions) : d.template # <<>>}}

\* a placeholder is mangled with the counter c
MangledWith(name, c) ==
    \E g \in InnerGenericNames : name = g \o "_cordlgen_" \o ToString(c)

IsMangled(name) == \E c \in 0..Len(Placeholders) : MangledWith(name, c)

\* the counter of a mangled placeholder
CounterOf(name) == CHOOSE c \in 0..Len(Placeholders) : MangledWith(name, c)

\* C26: the placeholder names one widening pass appends to template_args are
\* pairwise distinct, the top-level parameter names being distinct, and the
\* counters of the mangled names never decrease in the order they were appended.
C26_DistinctPlaceholders ==
    Widened =>
        /\ \A i, j \in DOMAIN Placeholders : i # j => Placeholders[i] # Placeholders[j]
        /\ \A i, j \in DOMAIN Placeholders :
              (i < j /\ IsMangled(Placeholders[i]) /\ IsMangled(Placeholders[j]))
                  => CounterOf(Placeholders[i]) <= CounterOf(Placeholders[j])

\* Box<Box<Other>> and Box<Other> widened in one pass: two mangled placeholders
\* of the same parameter T
C26_Witness ==
    /\ Widened
    /\ arguments.types = <<32, 24>>
    /\ Len(Placeholders) = 2
    /\ IsMangled(Placeholders[1]) /\ IsMangled(Placeholders[2])

----------------------------------------------------------------------------
(* Inputs of get_offset: one instance field at any offset *)

\* offsets below, at and above the object header, and the largest u32
OffsetInputs == {0, 8, ObjectSize - 1, ObjectSize, ObjectSize + 1, 24, U32Max}

InitOffset ==
    /\ pc = "get_offset"
    /\ instance_fields = <<>>
    /\ unionized = <<>>
    /\ \E kind \in TypeKinds, raw \in OffsetInputs,
          computed \in {<<>>} \cup {<<o>> : o \in OffsetInputs} :
            t = TypeDefinition(kind, FALSE,
                               <<FieldDef(<<"A">>, FALSE, FALSE, raw, 4, FALSE)>>,
                               computed, 32)
    /\ fields = <<>>
    /\ members = <<>>
    /\ size_info = <<>>
    /\ packing = None
    /\ feature = "il2cpp_v31"
    /\ ResolveIdle
    /\ CallIdle

GetOffset ==
    /\ pc = "get_offset"
    /\ returned' = <<get_offset(t.fields[1], t, 0)>>
    /\ pc' = "offset_done"
    /\ UNCHANGED <<arguments, unionVars, typeVars, resolveVars>>

NextOffset == GetOffset

SpecOffset == InitOffset /\ [][NextOffset]_vars

----------------------------------------------------------------------------
(* C27 *)

\* the offset get_offset starts from: the hotfix offset when one is left, the
\* field table's otherwise
TakenOffset ==
    IF t.computed_offsets # <<>> THEN t.computed_offsets[1] ELSE t.fields[1].raw_offset

\* C27: get_offset of an instance field returns an offset for every offset it
\* starts from (the field table's, or the hotfix offset when there is one),
\* never a wrapped-around one: for a value type that offset minus the object
\* header size when it is at least the header size and the offset unchanged when
\* it is below; for a reference type the offset unchanged.
C27_OffsetNoUnderflow ==
    pc = "offset_done" =>
        /\ returned[1] # None
        /\ returned[1] \in 0..U32Max
        /\ returned[1] <= TakenOffset
        /\ returned[1] =
              IF t.is_value_type
              THEN IF TakenOffset >= ObjectSize THEN TakenOffset - ObjectSize
                   ELSE TakenOffset
              ELSE TakenOffset

\* a value type's field below the object header, kept at its offset
C27_Witness ==
    /\ pc = "offset_done"
    /\ t.is_value_type
    /\ t.computed_offsets = <<>>
    /\ t.fields[1].raw_offset = 8
    /\ returned[1] = 8

----------------------------------------------------------------------------
(* C28 *)

\* the fields a member of a union declares, in order
BranchFields(m) ==
    IF m.kind = "FieldDecl" THEN <<m.field>>
    ELSE [i \in DOMAIN m.declarations |-> m.declarations[i].field]

\* the fields a member declares, in order: a plain field, or the fields of the
\* branches of a union
EmittedBy(m) ==
    IF m.kind = "FieldDecl" THEN <<m.field>>
    ELSE Flatten([i \in DOMAIN m.declarations |-> BranchFields(m.declarations[i])])

\* all fields the returned members declare
EmittedFields == Flatten([i \in DOMAIN unionized |-> EmittedBy(unionized[i])])

\* C28: make_or_unionize_fields emits every input field exactly once, as a plain
\* field, as a branch of a union or inside a struct of a union, for every input
\* list; and for an input without collision it returns the input fields as plain
\* fields in input order.
C28_EveryFieldOnce ==
    pc = "unionized" =>
        /\ Len(EmittedFields) = Len(instance_fields)
        /\ \A i \in DOMAIN instance_fields :
              Cardinality({k \in DOMAIN EmittedFields :
                              EmittedFields[k] = instance_fields[i].cpp_field}) = 1
        /\ ~field_collision_check(instance_fields) =>
              unionized = FieldDecls(instance_fields)

\* three colliding fields, two of them in one struct of the union
C28_Witness ==
    /\ pc = "unionized"
    /\ Len(instance_fields) = 3
    /\ Len(unionized) = 1
    /\ unionized[1].kind = "NestedUnion"
    /\ \E i \in DOMAIN unionized[1].declarations :
          /\ unionized[1].declarations[i].kind = "NestedStruct"
          /\ Len(unionized[1].declarations[i].declarations) = 2

----------------------------------------------------------------------------
(* Inputs of field_collision_check: fields that all have an offset, some of
   size 0 *)

MaxCollisionFields == 3

CollisionOffsets == {0, 4, 8}
CollisionSizes == {0, 4, 8}

CollisionFieldLists ==
    UNION {{[i \in 1..n |-> FieldInfo(<<FieldNames[i]>>, os[i][1], os[i][2], FALSE, FALSE)] :
              os \in [1..n -> CollisionOffsets \X CollisionSizes]} :
           n \in 0..MaxCollisionFields}

InitCollision ==
    /\ pc = "collision_check"
    /\ instance_fields \in CollisionFieldLists
    /\ unionized = <<>>
    /\ t = NoType
    /\ fields = <<>>
    /\ members = <<>>
    /\ size_info = <<>>
    /\ packing = None
    /\ feature = "il2cpp_v31"
    /\ ResolveIdle
    /\ CallIdle

FieldCollisionCheck ==
    /\ pc = "collision_check"
    /\ returned' = <<field_collision_check(instance_fields)>>
    /\ pc' = "collision_checked"
    /\ UNCHANGED <<arguments, unionVars, typeVars, resolveVars>>

NextCollision == FieldCollisionCheck

SpecCollision == InitCollision /\ [][NextCollision]_vars

----------------------------------------------------------------------------
(* C29 *)

\* the bytes of the range [offset, offset + size) of a field
BytesOf(f) == {b \in 0..(f.offset + f.size) : f.offset <= b /\ b < f.offset + f.size}

\* two of the fields share a byte
SomeOverlap(fs) ==
    \E i, j \in DOMAIN fs : i # j /\ BytesOf(fs[i]) \cap BytesOf(fs[j]) # {}

\* the input slice in every order
InputOrders(fs) ==
    {[i \in DOMAIN fs |-> fs[o[i]]] :
        o \in {p \in [DOMAIN fs -> DOMAIN fs] : \A i, j \in DOMAIN fs : i # j => p[i] # p[j]}}

\* C29: field_collision_check returns true exactly when two of the fields have
\* overlapping byte ranges [offset, offset + size), and returns the same answer
\* for every order of the input slice, also for lists with fields of size 0.
C29_Original ==
    pc = "collision_checked" =>
        /\ returned[1] = SomeOverlap(instance_fields)
        /\ \A fs \in InputOrders(instance_fields) :
              field_collision_check(fs) = returned[1]

----------------------------------------------------------------------------
(* fill_from_il2cpp: make_fields, then make_properties, on one type *)

MaxFillFields == 2

\* the names the fields of the type are drawn from: two of them are also names
\* of properties
FillFieldNames == {<<"P1">>, <<"P2">>, <<"A">>}

\* the field tables: instance fields with different names, one after the other
FillFieldTables ==
    UNION {{[i \in 1..n |-> FieldDef(names[i], FALSE, FALSE, 16 + 8 * (i - 1), 8, FALSE)] :
              names \in {f \in [1..n -> FillFieldNames] :
                            \A i, j \in 1..n : i # j => f[i] # f[j]}} :
           n \in 1..MaxFillFields}

InitFill ==
    /\ pc = "fill_fields"
    /\ instance_fields = <<>>
    /\ unionized = <<>>
    /\ \E kind \in TypeKinds, explicit \in BOOLEAN, tab \in FillFieldTables :
          t = TypeDefinition(kind, explicit, tab, <<>>, 32)
    /\ fields = <<>>
    /\ members = <<>>
    /\ size_info = <<>>
    /\ packing = None
    /\ feature = "il2cpp_v31"
    /\ ResolveIdle
    /\ \E props \in PropertyTables : arguments = [properties |-> props, members |-> <<>>]
    /\ returned = <<>>

\* fill_from_il2cpp up to make_fields
FillFields ==
    /\ pc = "fill_fields"
    /\ members' = make_fields([members |-> members], t).members
    /\ pc' = "make_properties"
    /\ UNCHANGED <<unionVars, t, fields, size_info, packing, feature, resolveVars,
                   callVars>>

NextFill == FillFields \/ MakeProperties

SpecFill == InitFill /\ [][NextFill]_vars

----------------------------------------------------------------------------
(* C30 *)

\* the fields a member declares, at any depth
RECURSIVE DeclaredFields(_)
DeclaredFields(m) ==
    IF m.kind = "FieldDecl" THEN {m.field}
    ELSE IF m.kind \in {"NestedUnion", "NestedStruct"}
    THEN UNION {DeclaredFields(m.declarations[i]) : i \in DOMAIN m.declarations}
    ELSE {}

InstanceFieldNames ==
    {f.name : f \in {g \in UNION {DeclaredFields(members[i]) : i \in DOMAIN members} :
                        g.instance}}

PropertyMemberNames ==
    {members[i].name : i \in {k \in DOMAIN members : members[k].kind = "Property"}}

\* C30 as stated: after fill_from_il2cpp no instance field member of the type has
\* the name of one of its Property members, the property having been added before
\* or after the field was handled.
C30_Original ==
    pc = "properties_made" => InstanceFieldNames \cap PropertyMemberNames = {}

============================================================================
